---- MODULE Spec2Model ----
(***************************************************************************)
(* Credential and token lifecycle of expenses-tracker-go: the handlers of *)
(* internal/handlers/auth_handlers.go over the users and refresh_tokens   *)
(* tables, run by concurrent request workers.  One step of a worker is    *)
(* one SQL statement together with the local code around it.  Time is     *)
(* counted in minutes.                                                     *)
(***************************************************************************)
EXTENDS Integers, Sequences, FiniteSets, TLC

VARIABLES
    now,            \* the wall clock (time.Now() / SQL NOW()), in minutes
    users,          \* table users: id -> row
    refresh_tokens, \* table refresh_tokens: set of rows
    nextToken,      \* number of random tokens drawn so far (each draw is fresh)
    ticks,          \* number of clock advances so far
    procs,          \* request workers: position, request, row read, response
    expected,       \* history: wrong-password logins finished since the counter was last 0
    revoked,        \* history: refresh tokens that were stored when a password reset finished
    env,            \* the process environment: JWT_SECRET, JWT_ACCESS_EXPIRY, JWT_REFRESH_EXPIRY
    jwt,            \* package auth's variables: jwtSecret, accessExpiry, refreshExpiry
    ret,            \* the last call of a library function: its arguments and what it returned
    issued,         \* history: the access tokens GenerateAccessToken returned, with their keys
    rlm,            \* the RateLimitManager: limiters (key -> RateLimiter), mu, rate, burst
    heap,           \* the RateLimiter objects: the bucket's tokens and last, and lastSeen
    reqs,           \* the goroutines of the rate-limited requests
    hist            \* history: requests come, keys used, limiters returned, admissions, evictions

(* The handlers' state and the libraries' state *)
authVars == <<now, users, refresh_tokens, nextToken, ticks, procs, expected, revoked>>

limiterVars == <<rlm, heap, reqs, hist>>

libVars == <<env, jwt, ret, issued, rlm, heap, reqs, hist>>

vars == <<now, users, refresh_tokens, nextToken, ticks, procs, expected, revoked, env, jwt, ret, issued,
         rlm, heap, reqs, hist>>

-----------------------------------------------------------------------------
(* Bounds of the model *)

MaxTicks == 1
MaxTokens == 3
MaxAttempts == 6
MaxAttemptsSeq == 1

(* The access tokens issued in a run of the token library *)
MaxIssued == 1

(* The requests that come to the rate limiter in a run *)
MaxRequests == 4

(* SQL NULL / Go nil pointer *)
NULL == -1

(* Program constants (minutes) *)
LockThreshold == 5
LockDuration == 15
VerificationTTL == 1440
ResetTokenTTL == 60
accessExpiry == 15
refreshExpiry == 10080
MinPasswordLength == 8
MaxPasswordLength == 128
BcryptMaxLength == 72
RegistrationEvery == 20
RegistrationBurst == 3
CleanupPeriod == 5
IdleLimit == 10

Procs == {"w1", "w2"}

Goroutines == {"g1", "g2"}

-----------------------------------------------------------------------------
(* Passwords are sequences of one-character strings *)

UpperSeq == <<"A","B","C","D","E","F","G","H","I","J","K","L","M",
              "N","O","P","Q","R","S","T","U","V","W","X","Y","Z">>
LowerSeq == <<"a","b","c","d","e","f","g","h","i","j","k","l","m",
              "n","o","p","q","r","s","t","u","v","w","x","y","z">>
Range(s) == {s[i] : i \in DOMAIN s}

hasUppercase == Range(UpperSeq)
hasLowercase == Range(LowerSeq)
hasNumber == {"0","1","2","3","4","5","6","7","8","9"}
(* the backquote, which a TLA+ string cannot hold *)
Backquote == "backquote"
hasSpecial == {"!","@","#","$","%","^","&","*","(",")","_","+","-","=","[","]",
               "{","}",";","'",":","\"","\\","|",",",".","<",">","/","?","~",Backquote}

MatchString(class, password) == \E i \in DOMAIN password : password[i] \in class

ToLowerChar(c) ==
    IF c \in hasUppercase
    THEN LowerSeq[CHOOSE i \in DOMAIN UpperSeq : UpperSeq[i] = c]
    ELSE c

ToLower(s) == [i \in DOMAIN s |-> ToLowerChar(s[i])]

Contains(s, sub) ==
    \E i \in 1..(Len(s) - Len(sub) + 1) : SubSeq(s, i, i + Len(sub) - 1) = sub

weakPasswords ==
    { <<"p","a","s","s","w","o","r","d">>,
      <<"1","2","3","4","5","6">>,
      <<"1","2","3","4","5","6","7","8","9">>,
      <<"q","w","e","r","t","y">>,
      <<"a","b","c","1","2","3">>,
      <<"p","a","s","s","w","o","r","d","1","2","3">>,
      <<"a","d","m","i","n">>,
      <<"l","e","t","m","e","i","n">>,
      <<"w","e","l","c","o","m","e">>,
      <<"m","o","n","k","e","y">> }

(* hasRepeatedChars on windows of 3 *)
hasRepeatedChars_Three(password) ==
    /\ Len(password) >= 3
    /\ \E i \in 1..(Len(password) - 2) :
          /\ password[i] = password[i+1]
          /\ password[i+1] = password[i+2]

hasRepeatedChars(password) ==
    /\ Len(password) >= 4
    /\ \E i \in 1..(Len(password) - 3) :
          /\ password[i] = password[i+1]
          /\ password[i+1] = password[i+2]
          /\ password[i+2] = password[i+3]

NoError == ""

ValidatePassword(password) ==
    IF Len(password) < MinPasswordLength
        THEN "Password must be at least 8 characters long"
    ELSE IF Len(password) > MaxPasswordLength
        THEN "Password must be no more than 128 characters long"
    ELSE IF \E weak \in weakPasswords : Contains(ToLower(password), weak)
        THEN "Password contains common weak patterns"
    ELSE IF ~MatchString(hasUppercase, password)
        THEN "Password must contain at least one uppercase letter"
    ELSE IF ~MatchString(hasLowercase, password)
        THEN "Password must contain at least one lowercase letter"
    ELSE IF ~MatchString(hasNumber, password)
        THEN "Password must contain at least one number"
    ELSE IF ~MatchString(hasSpecial, password)
        THEN "Password must contain at least one special character"
    ELSE IF hasRepeatedChars(password)
        THEN "Password cannot contain more than 3 repeated characters in a row"
    ELSE NoError

(* bcrypt: the hash keeps a random salt and depends on the first 72 bytes *)
(* of the password; GenerateFromPassword refuses longer passwords.        *)
BcryptKey(password) ==
    SubSeq(password, 1, IF Len(password) < BcryptMaxLength THEN Len(password) ELSE BcryptMaxLength)

HashPassword(password, salt) ==
    IF ValidatePassword(password) # NoError
        THEN [err |-> ValidatePassword(password), hash |-> <<>>]
    ELSE IF Len(password) > BcryptMaxLength
        THEN [err |-> "bcrypt: password length exceeds 72 bytes", hash |-> <<>>]
    ELSE [err |-> NoError, hash |-> <<salt, BcryptKey(password)>>]

ComparePassword(hashedPassword, password) ==
    /\ Len(hashedPassword) = 2
    /\ hashedPassword[2] = BcryptKey(password)

(* Request inputs *)
Pw1 == <<"S","e","c","u","r","e","1","!">>
Pw2 == <<"N","e","w","P","a","s","s","2","#">>
PwShort == <<"S","h","o","r","t","1","!">>

NewPasswords == {Pw2, PwShort}
WellFormedEmails == {"a@x.io", "b@x.io", "c@x.io"}

isValidEmail(email) == email \in WellFormedEmails

-----------------------------------------------------------------------------
(* Responses and workers *)

NoClaims == [UserID |-> NULL, Email |-> "", IssuedAt |-> NULL, ExpiresAt |-> NULL,
             NotBefore |-> NULL, Issuer |-> "", Subject |-> ""]

NoResult == [status |-> 0, error |-> "", message |-> "", access |-> NoClaims, refresh |-> NULL]

writeErrorResponse(statusCode, error) ==
    [NoResult EXCEPT !.status = statusCode, !.error = error]

SuccessResponse(statusCode, message) ==
    [NoResult EXCEPT !.status = statusCode, !.message = message]

Idle == [pc |-> "idle", op |-> "none", email |-> "", password |-> <<>>, token |-> NULL,
         uid |-> NULL, userID |-> NULL, FailedLoginAttempts |-> 0, mail |-> "none",
         dbErr |-> FALSE, authorization |-> <<>>, user_email |-> "", result |-> NoResult]

(* What emailService.Send...Email returned *)
MailOutcome(sent) == IF sent THEN "sent" ELSE "failed"

Done(req, result) == [req EXCEPT !.pc = "done", !.result = result]

-----------------------------------------------------------------------------
(* The token codec and the SQL statements of the handlers *)

(* jwt.SigningMethodHMAC and the other methods a token's header may name *)
SigningMethodHMAC == {"HS256", "HS384", "HS512"}

SigningMethods == SigningMethodHMAC \cup {"RS256", "none"}

JWTClaims(userID, email, t) ==
    [UserID |-> userID, Email |-> email, IssuedAt |-> t, ExpiresAt |-> t + jwt.accessExpiry,
     NotBefore |-> t, Issuer |-> "expenses-tracker-go", Subject |-> ToString(userID)]

(* The MAC of the claims under the key: equal for equal method, key and *)
(* claims only                                                          *)
Sign(method, claims, key) == IF method = "none" THEN <<>> ELSE <<method, key, claims>>

(* A token: its claims, the method named in its header, its signature *)
SignedString(method, claims, key) ==
    claims @@ [alg |-> method, signature |-> Sign(method, claims, key)]

ClaimsOf(tokenString) == [f \in DOMAIN NoClaims |-> tokenString[f]]

GenerateAccessToken(userID, email, t) ==
    SignedString("HS256", JWTClaims(userID, email, t), jwt.jwtSecret)

NoToken == [claims |-> NoClaims, err |-> "invalid token"]

(* ValidateAccessToken at time t, the signature not compared *)
ValidateAccessToken_NoSignature(tokenString, t) ==
    IF tokenString.alg \notin SigningMethodHMAC
      THEN [NoToken EXCEPT !.err = "unexpected signing method"]
    ELSE IF ~(t < tokenString.ExpiresAt)
      THEN [NoToken EXCEPT !.err = "token is expired"]
    ELSE IF t < tokenString.NotBefore
      THEN [NoToken EXCEPT !.err = "token is not valid yet"]
    ELSE [claims |-> ClaimsOf(tokenString), err |-> NoError]

(* ValidateAccessToken at time t: the key function, the signature, then *)
(* the registered claims (expired from ExpiresAt on)                    *)
ValidateAccessToken(tokenString, t) ==
    IF tokenString.alg \notin SigningMethodHMAC
      THEN [NoToken EXCEPT !.err = "unexpected signing method"]
    ELSE IF tokenString.signature # Sign(tokenString.alg, ClaimsOf(tokenString), jwt.jwtSecret)
      THEN [NoToken EXCEPT !.err = "signature is invalid"]
    ELSE IF ~(t < tokenString.ExpiresAt)
      THEN [NoToken EXCEPT !.err = "token is expired"]
    ELSE IF t < tokenString.NotBefore
      THEN [NoToken EXCEPT !.err = "token is not valid yet"]
    ELSE [claims |-> ClaimsOf(tokenString), err |-> NoError]

SelectUserByEmail_VerifiedOnly(rows, email) ==
    {id \in DOMAIN rows : rows[id].email = email /\ rows[id].email_verified}

SelectUserByEmail(rows, email) == {id \in DOMAIN rows : rows[id].email = email}

LoginNoAccountResponse_Reveals == writeErrorResponse(404, "User not found")

LoginNoAccountResponse == writeErrorResponse(401, "Invalid credentials")

IsLocked_NeverLocked(lockedUntil, t) == FALSE

IsLocked(lockedUntil, t) == lockedUntil # NULL /\ t < lockedUntil

(* The checks of a login without the one of email_verified *)
LoginCheck_SkipVerified(user, password, t) ==
    IF IsLocked(user.locked_until, t) THEN "locked"
    ELSE IF ~ComparePassword(user.password_hash, password) THEN "mismatch"
    ELSE "ok"

LoginCheck_PasswordFirst(user, password, t) ==
    IF IsLocked(user.locked_until, t) THEN "locked"
    ELSE IF ~ComparePassword(user.password_hash, password) THEN "mismatch"
    ELSE IF ~user.email_verified THEN "unverified"
    ELSE "ok"

LoginCheck(user, password, t) ==
    IF IsLocked(user.locked_until, t) THEN "locked"
    ELSE IF ~user.email_verified THEN "unverified"
    ELSE IF ~ComparePassword(user.password_hash, password) THEN "mismatch"
    ELSE "ok"

LockedUntilFor_OffByOne(newAttempts, t) ==
    IF newAttempts > LockThreshold THEN t + LockDuration ELSE NULL

LockedUntilFor(newAttempts, t) ==
    IF newAttempts >= LockThreshold THEN t + LockDuration ELSE NULL

(* The UPDATE of a failed login that leaves a lock already stored *)
UpdateFailedLoginAttempts_KeepLock(row, newAttempts, lockedUntil) ==
    [row EXCEPT !.failed_login_attempts = newAttempts,
                !.locked_until = IF row.locked_until # NULL THEN row.locked_until ELSE lockedUntil]

UpdateFailedLoginAttempts(row, newAttempts, lockedUntil) ==
    [row EXCEPT !.failed_login_attempts = newAttempts, !.locked_until = lockedUntil]

ResetFailedLoginAttempts_KeepLock(row) ==
    [row EXCEPT !.failed_login_attempts = 0]

ResetFailedLoginAttempts(row) ==
    [row EXCEPT !.failed_login_attempts = 0, !.locked_until = NULL]

InsertRefreshToken_Replace(rows, userID, token, t) ==
    {r \in rows : r.user_id # userID}
        \cup {[token |-> token, user_id |-> userID, expires_at |-> t + refreshExpiry]}

InsertRefreshToken(rows, userID, token, t) ==
    rows \cup {[token |-> token, user_id |-> userID, expires_at |-> t + refreshExpiry]}

SelectUserByVerificationToken_IgnoreExpiry(rows, token, t) ==
    {id \in DOMAIN rows :
        rows[id].verification_token # NULL /\ rows[id].verification_token = token}

SelectUserByVerificationToken(rows, token, t) ==
    {id \in DOMAIN rows :
        /\ rows[id].verification_token # NULL
        /\ rows[id].verification_token = token
        /\ rows[id].verification_token_expires # NULL
        /\ rows[id].verification_token_expires > t}

(* The UPDATE of a verification that leaves the token stored *)
VerifyEmail_KeepToken(row) == [row EXCEPT !.email_verified = TRUE]

VerifyEmail(row) ==
    [row EXCEPT !.email_verified = TRUE, !.verification_token = NULL,
                !.verification_token_expires = NULL]

UpdateResetToken(row, resetToken, resetExpires) ==
    [row EXCEPT !.reset_token = resetToken, !.reset_token_expires = resetExpires]

SelectUserByResetToken_IgnoreExpiry(rows, token, t) ==
    {id \in DOMAIN rows : rows[id].reset_token # NULL /\ rows[id].reset_token = token}

SelectUserByResetToken(rows, token, t) ==
    {id \in DOMAIN rows :
        /\ rows[id].reset_token # NULL
        /\ rows[id].reset_token = token
        /\ rows[id].reset_token_expires # NULL
        /\ rows[id].reset_token_expires > t}

UpdatePassword_Unverify(row, hashedPassword) ==
    [row EXCEPT !.password_hash = hashedPassword, !.reset_token = NULL,
                !.reset_token_expires = NULL,
                !.failed_login_attempts = 0, !.locked_until = NULL,
                !.email_verified = FALSE]

UpdatePassword_KeepExpiry(row, hashedPassword) ==
    [row EXCEPT !.password_hash = hashedPassword, !.reset_token = NULL,
                !.failed_login_attempts = 0, !.locked_until = NULL]

UpdatePassword_KeepLockout(row, hashedPassword) ==
    [row EXCEPT !.password_hash = hashedPassword, !.reset_token = NULL,
                !.reset_token_expires = NULL]

UpdatePassword(row, hashedPassword) ==
    [row EXCEPT !.password_hash = hashedPassword, !.reset_token = NULL,
                !.reset_token_expires = NULL,
                !.failed_login_attempts = 0, !.locked_until = NULL]

DeleteAllRefreshTokensForUser_KeepOne(rows, userID) ==
    LET mine == {r \in rows : r.user_id = userID}
    IN  IF mine = {} THEN rows
        ELSE rows \ (mine \ {CHOOSE r \in mine : \A o \in mine : r.token <= o.token})

DeleteAllRefreshTokensForUser(rows, userID) == {r \in rows : r.user_id # userID}

FindRefreshToken_IgnoreExpiry(rows, userRows, token, t) ==
    {r \in rows : r.token = token /\ userRows[r.user_id].email_verified}

FindRefreshToken(rows, userRows, token, t) ==
    {r \in rows : /\ r.token = token
                  /\ r.expires_at > t
                  /\ userRows[r.user_id].email_verified}

DeleteRefreshToken_AnyOwner(rows, token, userID) == {r \in rows : r.token # token}

DeleteRefreshToken(rows, token, userID) ==
    {r \in rows : ~(r.token = token /\ r.user_id = userID)}

(* INSERT INTO users: the columns the statement names, the defaults of the *)
(* schema for the others, the next id of the SERIAL column                 *)
NewUser(email, hashedPassword, verificationToken, verificationExpires) ==
    [email |-> email, password_hash |-> hashedPassword, email_verified |-> FALSE,
     verification_token |-> verificationToken,
     verification_token_expires |-> verificationExpires,
     reset_token |-> NULL, reset_token_expires |-> NULL,
     failed_login_attempts |-> 0, locked_until |-> NULL]

NextUserID(rows) == Cardinality(DOMAIN rows) + 1

InsertUser(rows, row) == rows @@ (NextUserID(rows) :> row)

UpdateVerificationToken_KeepExpiry(row, verificationToken, verificationExpires) ==
    [row EXCEPT !.verification_token = verificationToken]

UpdateVerificationToken(row, verificationToken, verificationExpires) ==
    [row EXCEPT !.verification_token = verificationToken,
                !.verification_token_expires = verificationExpires]

-----------------------------------------------------------------------------
(* History bookkeeping for the failed-attempt counter *)

FailWritePending(id) ==
    \E q \in Procs : procs[q].pc = "login_fail_update" /\ procs[q].userID = id

ExpectedAfterFail(e) ==
    IF e = NULL THEN NULL ELSE IF e >= MaxAttempts THEN e ELSE e + 1

ExpectedAfterReset(id) == IF FailWritePending(id) THEN NULL ELSE 0

-----------------------------------------------------------------------------
(* The store after two registrations, the first of them verified *)

(* The libraries after main has run: JWT_SECRET set, the lifetimes left *)
(* unset, InitJWT called, no call made yet                               *)
NoCall == [fn |-> "none"]

LibInit ==
    /\ env = [JWT_SECRET |-> "test-secret", JWT_ACCESS_EXPIRY |-> <<>>, JWT_REFRESH_EXPIRY |-> <<>>]
    /\ jwt = [jwtSecret |-> "test-secret", accessExpiry |-> accessExpiry, refreshExpiry |-> refreshExpiry]
    /\ ret = NoCall
    /\ issued = {}
    /\ rlm = [limiters |-> <<>>, mu |-> "free", rate |-> RegistrationEvery, burst |-> RegistrationBurst]
    /\ heap = <<>>
    /\ reqs = [g \in Goroutines |-> [pc |-> "idle", client |-> "", ip |-> <<>>, exists |-> FALSE,
                                     limiter |-> NULL, epoch |-> 0, served |-> 0, status |-> 0]]
    /\ hist = [arrived |-> 0, swept |-> 0, keysOf |-> {}, returned |-> {}, admitted |-> {},
               evictions |-> <<>>]

Init ==
    /\ now = 0
    /\ ticks = 0
    /\ users = (1 :> [email |-> "a@x.io", password_hash |-> HashPassword(Pw1, 1).hash,
                      email_verified |-> TRUE,
                      verification_token |-> NULL, verification_token_expires |-> NULL,
                      reset_token |-> NULL, reset_token_expires |-> NULL,
                      failed_login_attempts |-> 0, locked_until |-> NULL])
            @@ (2 :> [email |-> "b@x.io", password_hash |-> HashPassword(Pw1, 2).hash,
                      email_verified |-> FALSE,
                      verification_token |-> 0, verification_token_expires |-> VerificationTTL,
                      reset_token |-> NULL, reset_token_expires |-> NULL,
                      failed_login_attempts |-> 0, locked_until |-> NULL])
    /\ refresh_tokens = {}
    /\ nextToken = 1
    /\ procs = [p \in Procs |-> Idle]
    /\ expected = [id \in {1, 2} |-> 0]
    /\ revoked = {}
    /\ LibInit

(* The store with both accounts verified; the first one either untouched *)
(* or locked by five wrong logins at time 0                               *)
InitSession ==
    /\ now = 0
    /\ ticks = 0
    /\ \E lock \in {[n |-> 0, until |-> NULL], [n |-> LockThreshold, until |-> LockDuration]} :
          /\ users = (1 :> [email |-> "a@x.io", password_hash |-> HashPassword(Pw1, 1).hash,
                            email_verified |-> TRUE,
                            verification_token |-> NULL, verification_token_expires |-> NULL,
                            reset_token |-> NULL, reset_token_expires |-> NULL,
                            failed_login_attempts |-> lock.n, locked_until |-> lock.until])
                  @@ (2 :> [email |-> "b@x.io", password_hash |-> HashPassword(Pw1, 2).hash,
                            email_verified |-> TRUE,
                            verification_token |-> NULL, verification_token_expires |-> NULL,
                            reset_token |-> NULL, reset_token_expires |-> NULL,
                            failed_login_attempts |-> 0, locked_until |-> NULL])
          /\ expected = (1 :> lock.n) @@ (2 :> 0)
    /\ refresh_tokens = {}
    /\ nextToken = 0
    /\ procs = [p \in Procs |-> Idle]
    /\ revoked = {}
    /\ LibInit

(* The store after two registrations, the verification of the first *)
(* account and one login to it, all at time 0                        *)
InitAll ==
    /\ now = 0
    /\ ticks = 0
    /\ users = (1 :> [NewUser("a@x.io", HashPassword(Pw1, 1).hash, NULL, NULL)
                         EXCEPT !.email_verified = TRUE])
            @@ (2 :> NewUser("b@x.io", HashPassword(Pw1, 2).hash, 0, VerificationTTL))
    /\ refresh_tokens = InsertRefreshToken({}, 1, 1, 0)
    /\ nextToken = 2
    /\ procs = [p \in Procs |-> Idle]
    /\ expected = [id \in {1, 2} |-> 0]
    /\ revoked = {}
    /\ LibInit

-----------------------------------------------------------------------------
(* RegisterHandler *)

RegisterMessage == "User registered successfully. Please check your email to verify your account."

RegisterResponse_MailFatal(sent) ==
    IF sent THEN SuccessResponse(201, RegisterMessage)
    ELSE writeErrorResponse(500, "Failed to send verification email")

RegisterResponse(sent) == SuccessResponse(201, RegisterMessage)

RegisterSelect(p, email, password) ==
    /\ procs[p].pc = "idle"
    /\ LET req == [Idle EXCEPT !.op = "register", !.email = email, !.password = password]
           found == SelectUserByEmail(users, email)
       IN  IF ~isValidEmail(email)
             THEN procs' = [procs EXCEPT ![p] = Done(req, writeErrorResponse(400, "Invalid email format"))]
           ELSE IF ValidatePassword(password) # NoError
             THEN procs' = [procs EXCEPT ![p] = Done(req, writeErrorResponse(400, "Password validation failed"))]
           ELSE IF found # {}
             THEN procs' = [procs EXCEPT ![p] = Done(req, writeErrorResponse(409, "Email already registered"))]
           ELSE procs' = [procs EXCEPT ![p] = [req EXCEPT !.pc = "register_insert"]]
    /\ UNCHANGED <<now, users, refresh_tokens, nextToken, ticks, expected, revoked>>
    /\ UNCHANGED libVars

(* The INSERT fails on the UNIQUE constraint of users.email *)
RegisterInsert(p, salt, sent) ==
    /\ procs[p].pc = "register_insert"
    /\ nextToken < MaxTokens
    /\ LET hashed == HashPassword(procs[p].password, salt)
           verificationToken == nextToken
           verificationExpires == now + VerificationTTL
           row == NewUser(procs[p].email, hashed.hash, verificationToken, verificationExpires)
       IN  IF hashed.err # NoError
             THEN /\ procs' = [procs EXCEPT ![p] = Done(@, writeErrorResponse(500, "Password hashing failed"))]
                  /\ UNCHANGED <<users, expected, nextToken>>
           ELSE IF SelectUserByEmail(users, procs[p].email) # {}
             THEN /\ procs' = [procs EXCEPT ![p] = Done(@, writeErrorResponse(500, "Failed to create user"))]
                  /\ nextToken' = nextToken + 1
                  /\ UNCHANGED <<users, expected>>
           ELSE /\ users' = InsertUser(users, row)
                /\ expected' = expected @@ (NextUserID(users) :> 0)
                /\ nextToken' = nextToken + 1
                /\ procs' = [procs EXCEPT ![p] =
                       Done([@ EXCEPT !.userID = NextUserID(users), !.mail = MailOutcome(sent)],
                            RegisterResponse(sent))]
    /\ UNCHANGED <<now, refresh_tokens, ticks, revoked>>
    /\ UNCHANGED libVars

-----------------------------------------------------------------------------
(* LoginHandler *)

LoginSelect(p, email, password) ==
    /\ procs[p].pc = "idle"
    /\ LET req == [Idle EXCEPT !.op = "login", !.email = email, !.password = password]
           found == SelectUserByEmail(users, email)
       IN  IF ~isValidEmail(email)
             THEN procs' = [procs EXCEPT ![p] = Done(req, writeErrorResponse(400, "Invalid email format"))]
           ELSE IF found = {}
             THEN procs' = [procs EXCEPT ![p] = Done(req, LoginNoAccountResponse)]
           ELSE \E id \in found :
                LET user == users[id]
                    outcome == LoginCheck(user, password, now)
                    read == [req EXCEPT !.userID = id,
                                        !.FailedLoginAttempts = user.failed_login_attempts]
                IN  CASE outcome = "locked" ->
                           procs' = [procs EXCEPT ![p] = Done(req, writeErrorResponse(423, "Account locked"))]
                      [] outcome = "unverified" ->
                           procs' = [procs EXCEPT ![p] = Done(req, writeErrorResponse(403, "Email not verified"))]
                      [] outcome = "mismatch" ->
                           procs' = [procs EXCEPT ![p] = [read EXCEPT !.pc = "login_fail_update"]]
                      [] OTHER ->
                           procs' = [procs EXCEPT ![p] = [read EXCEPT !.pc = "login_reset_update"]]
    /\ UNCHANGED <<now, users, refresh_tokens, nextToken, ticks, expected, revoked>>
    /\ UNCHANGED libVars

LoginFailUpdate(p) ==
    /\ procs[p].pc = "login_fail_update"
    /\ LET id == procs[p].userID
           newAttempts == procs[p].FailedLoginAttempts + 1
           lockedUntil == LockedUntilFor(newAttempts, now)
       IN  /\ users' = [users EXCEPT ![id] = UpdateFailedLoginAttempts(@, newAttempts, lockedUntil)]
           /\ expected' = [expected EXCEPT ![id] = ExpectedAfterFail(@)]
    /\ procs' = [procs EXCEPT ![p] = Done(@, writeErrorResponse(401, "Invalid credentials"))]
    /\ UNCHANGED <<now, refresh_tokens, nextToken, ticks, revoked>>
    /\ UNCHANGED libVars

LoginResetUpdate(p) ==
    /\ procs[p].pc = "login_reset_update"
    /\ LET id == procs[p].userID
       IN  /\ users' = [users EXCEPT ![id] = ResetFailedLoginAttempts(@)]
           /\ expected' = [expected EXCEPT ![id] = ExpectedAfterReset(id)]
    /\ procs' = [procs EXCEPT ![p].pc = "login_insert"]
    /\ UNCHANGED <<now, refresh_tokens, nextToken, ticks, revoked>>
    /\ UNCHANGED libVars

LoginInsert(p) ==
    /\ procs[p].pc = "login_insert"
    /\ nextToken < MaxTokens
    /\ LET id == procs[p].userID
           accessToken == GenerateAccessToken(id, procs[p].email, now)
           refreshToken == nextToken
       IN  /\ refresh_tokens' = InsertRefreshToken(refresh_tokens, id, refreshToken, now)
           /\ procs' = [procs EXCEPT ![p] =
                  Done(@, [SuccessResponse(200, "Login successful")
                              EXCEPT !.access = accessToken, !.refresh = refreshToken])]
    /\ nextToken' = nextToken + 1
    /\ UNCHANGED <<now, users, ticks, expected, revoked>>
    /\ UNCHANGED libVars

-----------------------------------------------------------------------------
(* VerifyEmailHandler; the empty token of a request is written NULL *)

VerifySelect(p, token) ==
    /\ procs[p].pc = "idle"
    /\ LET req == [Idle EXCEPT !.op = "verifyEmail", !.token = token]
           found == SelectUserByVerificationToken(users, token, now)
       IN  IF token = NULL
             THEN procs' = [procs EXCEPT ![p] = Done(req, writeErrorResponse(400, "Token required"))]
           ELSE IF found = {}
             THEN procs' = [procs EXCEPT ![p] = Done(req, writeErrorResponse(400, "Invalid or expired token"))]
           ELSE \E id \in found :
                procs' = [procs EXCEPT ![p] = [req EXCEPT !.pc = "verify_update", !.userID = id]]
    /\ UNCHANGED <<now, users, refresh_tokens, nextToken, ticks, expected, revoked>>
    /\ UNCHANGED libVars

VerifyUpdate(p) ==
    /\ procs[p].pc = "verify_update"
    /\ users' = [users EXCEPT ![procs[p].userID] = VerifyEmail(@)]
    /\ procs' = [procs EXCEPT ![p] =
           Done(@, SuccessResponse(200, "Email verified successfully. You can now log in."))]
    /\ UNCHANGED <<now, refresh_tokens, nextToken, ticks, expected, revoked>>
    /\ UNCHANGED libVars

-----------------------------------------------------------------------------
(* ResendVerificationHandler *)

ResendNoAccountResponse ==
    SuccessResponse(200, "If the email exists and is not verified, a verification email has been sent.")

ResendResponse_MailIgnored(sent) == SuccessResponse(200, "Verification email sent successfully.")

ResendResponse(sent) ==
    IF sent THEN SuccessResponse(200, "Verification email sent successfully.")
    ELSE writeErrorResponse(500, "Failed to send verification email")

ResendSelect(p, email) ==
    /\ procs[p].pc = "idle"
    /\ LET req == [Idle EXCEPT !.op = "resendVerification", !.email = email]
           found == SelectUserByEmail(users, email)
       IN  IF ~isValidEmail(email)
             THEN procs' = [procs EXCEPT ![p] = Done(req, writeErrorResponse(400, "Invalid email format"))]
           ELSE IF found = {}
             THEN procs' = [procs EXCEPT ![p] = Done(req, ResendNoAccountResponse)]
           ELSE \E id \in found :
                IF users[id].email_verified
                  THEN procs' = [procs EXCEPT ![p] = Done(req, writeErrorResponse(400, "Email already verified"))]
                ELSE procs' = [procs EXCEPT ![p] = [req EXCEPT !.pc = "resend_update", !.userID = id]]
    /\ UNCHANGED <<now, users, refresh_tokens, nextToken, ticks, expected, revoked>>
    /\ UNCHANGED libVars

ResendUpdate(p, sent) ==
    /\ procs[p].pc = "resend_update"
    /\ nextToken < MaxTokens
    /\ LET verificationToken == nextToken
           verificationExpires == now + VerificationTTL
       IN  users' = [users EXCEPT ![procs[p].userID] =
                        UpdateVerificationToken(@, verificationToken, verificationExpires)]
    /\ nextToken' = nextToken + 1
    /\ procs' = [procs EXCEPT ![p] =
           Done([@ EXCEPT !.mail = MailOutcome(sent)], ResendResponse(sent))]
    /\ UNCHANGED <<now, refresh_tokens, ticks, expected, revoked>>
    /\ UNCHANGED libVars

-----------------------------------------------------------------------------
(* ForgotPasswordHandler *)

ForgotMessage == "If the email exists, a password reset link has been sent."

ForgotNoAccountResponse == SuccessResponse(200, ForgotMessage)

ForgotResponse_SaysSent(sent) ==
    IF sent THEN SuccessResponse(200, "Password reset email sent")
    ELSE writeErrorResponse(500, "Failed to send reset email")

ForgotResponse(sent) ==
    IF sent THEN SuccessResponse(200, ForgotMessage)
    ELSE writeErrorResponse(500, "Failed to send reset email")

ForgotSelect(p, email) ==
    /\ procs[p].pc = "idle"
    /\ LET req == [Idle EXCEPT !.op = "forgotPassword", !.email = email]
           found == SelectUserByEmail(users, email)
       IN  IF ~isValidEmail(email)
             THEN procs' = [procs EXCEPT ![p] = Done(req, writeErrorResponse(400, "Invalid email format"))]
           ELSE IF found = {}
             THEN procs' = [procs EXCEPT ![p] = Done(req, ForgotNoAccountResponse)]
           ELSE \E id \in found :
                procs' = [procs EXCEPT ![p] = [req EXCEPT !.pc = "forgot_update", !.userID = id]]
    /\ UNCHANGED <<now, users, refresh_tokens, nextToken, ticks, expected, revoked>>
    /\ UNCHANGED libVars

ForgotUpdate(p, sent) ==
    /\ procs[p].pc = "forgot_update"
    /\ nextToken < MaxTokens
    /\ LET resetToken == nextToken
           resetExpires == now + ResetTokenTTL
       IN  users' = [users EXCEPT ![procs[p].userID] = UpdateResetToken(@, resetToken, resetExpires)]
    /\ nextToken' = nextToken + 1
    /\ procs' = [procs EXCEPT ![p] =
           Done([@ EXCEPT !.mail = MailOutcome(sent)], ForgotResponse(sent))]
    /\ UNCHANGED <<now, refresh_tokens, ticks, expected, revoked>>
    /\ UNCHANGED libVars

-----------------------------------------------------------------------------
(* ResetPasswordHandler *)

ResetSelect(p, token, newPassword) ==
    /\ procs[p].pc = "idle"
    /\ LET req == [Idle EXCEPT !.op = "resetPassword", !.token = token, !.password = newPassword]
           found == SelectUserByResetToken(users, token, now)
       IN  IF ValidatePassword(newPassword) # NoError
             THEN procs' = [procs EXCEPT ![p] = Done(req, writeErrorResponse(400, "Password validation failed"))]
           ELSE IF found = {}
             THEN procs' = [procs EXCEPT ![p] = Done(req, writeErrorResponse(400, "Invalid or expired reset token"))]
           ELSE \E id \in found :
                procs' = [procs EXCEPT ![p] = [req EXCEPT !.pc = "reset_update", !.userID = id]]
    /\ UNCHANGED <<now, users, refresh_tokens, nextToken, ticks, expected, revoked>>
    /\ UNCHANGED libVars

ResetUpdate(p, salt) ==
    /\ procs[p].pc = "reset_update"
    /\ LET id == procs[p].userID
           hashed == HashPassword(procs[p].password, salt)
       IN  IF hashed.err # NoError
             THEN /\ procs' = [procs EXCEPT ![p] = Done(@, writeErrorResponse(500, "Password hashing failed"))]
                  /\ UNCHANGED <<users, expected>>
           ELSE /\ users' = [users EXCEPT ![id] = UpdatePassword(@, hashed.hash)]
                /\ expected' = [expected EXCEPT ![id] = ExpectedAfterReset(id)]
                /\ procs' = [procs EXCEPT ![p].pc = "reset_delete"]
    /\ UNCHANGED <<now, refresh_tokens, nextToken, ticks, revoked>>
    /\ UNCHANGED libVars

ResetDelete(p) ==
    /\ procs[p].pc = "reset_delete"
    /\ LET id == procs[p].userID
       IN  /\ refresh_tokens' = DeleteAllRefreshTokensForUser(refresh_tokens, id)
           /\ revoked' = revoked \cup {r.token : r \in {x \in refresh_tokens : x.user_id = id}}
    /\ procs' = [procs EXCEPT ![p] =
           Done(@, SuccessResponse(200, "Password reset successfully. Please log in with your new password."))]
    /\ UNCHANGED <<now, users, nextToken, ticks, expected>>
    /\ UNCHANGED libVars

-----------------------------------------------------------------------------
(* RefreshTokenHandler *)

RefreshToken(p, token) ==
    /\ procs[p].pc = "idle"
    /\ LET req == [Idle EXCEPT !.op = "refreshToken", !.token = token]
           found == FindRefreshToken(refresh_tokens, users, token, now)
       IN  IF found = {}
             THEN procs' = [procs EXCEPT ![p] =
                      Done(req, writeErrorResponse(401, "Invalid or expired refresh token"))]
           ELSE \E r \in found :
                procs' = [procs EXCEPT ![p] =
                    Done([req EXCEPT !.userID = r.user_id],
                         [SuccessResponse(200, "Token refreshed successfully")
                            EXCEPT !.access = GenerateAccessToken(r.user_id, users[r.user_id].email, now)])]
    /\ UNCHANGED <<now, users, refresh_tokens, nextToken, ticks, expected, revoked>>
    /\ UNCHANGED libVars

-----------------------------------------------------------------------------
(* LogoutHandler; userID is the id the auth middleware put in the context *)

Logout(p, userID, token) ==
    /\ procs[p].pc = "idle"
    /\ LET req == [Idle EXCEPT !.op = "logout", !.uid = userID, !.token = token]
           remaining == DeleteRefreshToken(refresh_tokens, token, userID)
           rowsAffected == Cardinality(refresh_tokens) - Cardinality(remaining)
       IN  /\ refresh_tokens' = remaining
           /\ procs' = [procs EXCEPT ![p] =
                  Done(req, IF rowsAffected = 0
                            THEN writeErrorResponse(400, "Invalid refresh token")
                            ELSE SuccessResponse(200, "Logged out successfully"))]
    /\ UNCHANGED <<now, users, nextToken, ticks, expected, revoked>>
    /\ UNCHANGED libVars

-----------------------------------------------------------------------------
(* Store failures.  A statement that fails changes nothing in the store; *)
(* the handler goes on as its code does with the error (or without       *)
(* looking at it).  dbErr records that a statement of the request failed *)

StoreFails(p, req, result) ==
    /\ procs' = [procs EXCEPT ![p] = Done([req EXCEPT !.dbErr = TRUE], result)]
    /\ UNCHANGED <<now, users, refresh_tokens, nextToken, ticks, expected, revoked>>
    /\ UNCHANGED libVars

RegisterSelectFails(p, email, password) ==
    /\ procs[p].pc = "idle"
    /\ isValidEmail(email)
    /\ ValidatePassword(password) = NoError
    /\ StoreFails(p, [Idle EXCEPT !.op = "register", !.email = email, !.password = password],
                  writeErrorResponse(500, "Database error"))

RegisterInsertFails(p, salt) ==
    /\ procs[p].pc = "register_insert"
    /\ HashPassword(procs[p].password, salt).err = NoError
    /\ StoreFails(p, procs[p], writeErrorResponse(500, "Failed to create user"))

LoginSelectFails(p, email, password) ==
    /\ procs[p].pc = "idle"
    /\ isValidEmail(email)
    /\ StoreFails(p, [Idle EXCEPT !.op = "login", !.email = email, !.password = password],
                  writeErrorResponse(500, "Database error"))

(* The error of the UPDATE is not looked at: the counter stays, 401 *)
LoginFailUpdateFails(p) ==
    /\ procs[p].pc = "login_fail_update"
    /\ procs' = [procs EXCEPT ![p] =
           Done([@ EXCEPT !.dbErr = TRUE], writeErrorResponse(401, "Invalid credentials"))]
    /\ expected' = [expected EXCEPT ![procs[p].userID] = NULL]
    /\ UNCHANGED <<now, users, refresh_tokens, nextToken, ticks, revoked>>
    /\ UNCHANGED libVars

(* The error of the UPDATE is not looked at: the login goes on *)
LoginResetUpdateFails(p) ==
    /\ procs[p].pc = "login_reset_update"
    /\ procs' = [procs EXCEPT ![p] = [@ EXCEPT !.pc = "login_insert", !.dbErr = TRUE]]
    /\ UNCHANGED <<now, users, refresh_tokens, nextToken, ticks, expected, revoked>>
    /\ UNCHANGED libVars

LoginInsertFails(p) ==
    /\ procs[p].pc = "login_insert"
    /\ StoreFails(p, procs[p], writeErrorResponse(500, "Failed to store refresh token"))

VerifySelectFails(p, token) ==
    /\ procs[p].pc = "idle"
    /\ token # NULL
    /\ StoreFails(p, [Idle EXCEPT !.op = "verifyEmail", !.token = token],
                  writeErrorResponse(500, "Database error"))

VerifyUpdateFails(p) ==
    /\ procs[p].pc = "verify_update"
    /\ StoreFails(p, procs[p], writeErrorResponse(500, "Failed to verify email"))

ResendSelectFails(p, email) ==
    /\ procs[p].pc = "idle"
    /\ isValidEmail(email)
    /\ StoreFails(p, [Idle EXCEPT !.op = "resendVerification", !.email = email],
                  writeErrorResponse(500, "Database error"))

ResendUpdateFails(p) ==
    /\ procs[p].pc = "resend_update"
    /\ StoreFails(p, procs[p], writeErrorResponse(500, "Failed to update verification token"))

ForgotSelectFails(p, email) ==
    /\ procs[p].pc = "idle"
    /\ isValidEmail(email)
    /\ StoreFails(p, [Idle EXCEPT !.op = "forgotPassword", !.email = email],
                  writeErrorResponse(500, "Database error"))

ForgotUpdateFails(p) ==
    /\ procs[p].pc = "forgot_update"
    /\ StoreFails(p, procs[p], writeErrorResponse(500, "Failed to update reset token"))

ResetSelectFails(p, token, newPassword) ==
    /\ procs[p].pc = "idle"
    /\ ValidatePassword(newPassword) = NoError
    /\ StoreFails(p, [Idle EXCEPT !.op = "resetPassword", !.token = token, !.password = newPassword],
                  writeErrorResponse(500, "Database error"))

ResetUpdateFails(p, salt) ==
    /\ procs[p].pc = "reset_update"
    /\ HashPassword(procs[p].password, salt).err = NoError
    /\ StoreFails(p, procs[p], writeErrorResponse(500, "Failed to update password"))

(* The error of the DELETE is not looked at: the rows stay, 200 *)
ResetDeleteFails(p) ==
    /\ procs[p].pc = "reset_delete"
    /\ procs' = [procs EXCEPT ![p] =
           Done([@ EXCEPT !.dbErr = TRUE],
                SuccessResponse(200, "Password reset successfully. Please log in with your new password."))]
    /\ UNCHANGED <<now, users, refresh_tokens, nextToken, ticks, expected, revoked>>
    /\ UNCHANGED libVars

RefreshTokenFails(p, token) ==
    /\ procs[p].pc = "idle"
    /\ StoreFails(p, [Idle EXCEPT !.op = "refreshToken", !.token = token],
                  writeErrorResponse(500, "Database error"))

LogoutFails(p, userID, token) ==
    /\ procs[p].pc = "idle"
    /\ StoreFails(p, [Idle EXCEPT !.op = "logout", !.uid = userID, !.token = token],
                  writeErrorResponse(500, "Failed to logout"))

-----------------------------------------------------------------------------
(* The response is written and the worker takes the next request *)

Respond(p) ==
    /\ procs[p].pc = "done"
    /\ procs' = [procs EXCEPT ![p] = Idle]
    /\ UNCHANGED <<now, users, refresh_tokens, nextToken, ticks, expected, revoked>>
    /\ UNCHANGED libVars

(* Time passes: d minutes *)
Tick(d) ==
    /\ ticks < MaxTicks
    /\ now' = now + d
    /\ ticks' = ticks + 1
    /\ UNCHANGED <<users, refresh_tokens, nextToken, procs, expected, revoked>>
    /\ UNCHANGED libVars

-----------------------------------------------------------------------------
(* Requests.  A token in a request is one drawn so far, one not drawn yet, *)
(* or none; a login names an account with one of two passwords, or an     *)
(* email without account.                                                  *)

IssuedTokens == 0..(nextToken - 1)

TokenInputs == {NULL} \cup IssuedTokens

LoginRequests ==
    { [email |-> "a@x.io", password |-> Pw1], [email |-> "a@x.io", password |-> Pw2],
      [email |-> "b@x.io", password |-> Pw1], [email |-> "b@x.io", password |-> Pw2],
      [email |-> "c@x.io", password |-> Pw1], [email |-> "not-an-email", password |-> Pw1] }

SessionLoginRequests ==
    { [email |-> "a@x.io", password |-> Pw1], [email |-> "a@x.io", password |-> Pw2],
      [email |-> "b@x.io", password |-> Pw1], [email |-> "c@x.io", password |-> Pw1] }

SessionEmails == {"a@x.io", "c@x.io"}

(* bcrypt salts *)
Salts == {1, 2}

(* The users the auth middleware lets through *)
ContextUsers == {id \in DOMAIN users : users[id].email_verified}

(* The failed-attempt counter is unbounded: a wrong password is tried only *)
(* while the counter is below cap                                          *)
Bounded(r, cap) ==
    \A id \in SelectUserByEmail(users, r.email) :
        \/ ComparePassword(users[id].password_hash, r.password)
        \/ users[id].failed_login_attempts < cap

(* No response is waiting to be written *)
Quiet == \A q \in Procs : procs[q].pc # "done"

(* No other worker has a request *)
Alone(p) == \A q \in Procs \ {p} : procs[q].pc = "idle"

LoginStep(p, ok, requests, cap) ==
    \/ ok /\ \E r \in requests : Bounded(r, cap) /\ LoginSelect(p, r.email, r.password)
    \/ ok /\ LoginFailUpdate(p)
    \/ ok /\ LoginResetUpdate(p)
    \/ ok /\ LoginInsert(p)

ResetStep(p, ok, emails) ==
    \/ ok /\ \E email \in emails : ForgotSelect(p, email)
    \/ ok /\ \E sent \in BOOLEAN : ForgotUpdate(p, sent)
    \/ ok /\ \E token \in TokenInputs, newPassword \in NewPasswords : ResetSelect(p, token, newPassword)
    \/ ok /\ \E salt \in Salts : ResetUpdate(p, salt)
    \/ ok /\ ResetDelete(p)

VerifyStep(p, ok) ==
    \/ ok /\ \E token \in TokenInputs : VerifySelect(p, token)
    \/ ok /\ VerifyUpdate(p)

RegisterRequests ==
    { [email |-> "c@x.io", password |-> Pw1], [email |-> "c@x.io", password |-> PwShort],
      [email |-> "a@x.io", password |-> Pw1], [email |-> "b@x.io", password |-> Pw2],
      [email |-> "not-an-email", password |-> Pw1] }

RegisterStep(p, ok, requests) ==
    \/ ok /\ \E r \in requests : RegisterSelect(p, r.email, r.password)
    \/ ok /\ \E salt \in Salts, sent \in BOOLEAN : RegisterInsert(p, salt, sent)

ResendStep(p, ok, emails) ==
    \/ ok /\ \E email \in emails : ResendSelect(p, email)
    \/ ok /\ \E sent \in BOOLEAN : ResendUpdate(p, sent)

SessionStep(p, ok) ==
    \/ ok /\ \E token \in IssuedTokens : RefreshToken(p, token)
    \/ ok /\ \E userID \in ContextUsers, token \in IssuedTokens : Logout(p, userID, token)

(* Concurrent logins: the workers interleave statement by statement; a   *)
(* finished request's response is written before anything else happens. *)
NextLogin ==
    \/ Quiet /\ Tick(LockDuration)
    \/ \E p \in Procs : LoginStep(p, Quiet, LoginRequests, MaxAttempts)
    \/ \E p \in Procs : Respond(p)

SpecLogin == Init /\ [][NextLogin]_vars

(* Logins served one at a time *)
NextLoginSeq ==
    \/ Quiet /\ Tick(LockDuration)
    \/ \E p \in Procs : LoginStep(p, Alone(p), LoginRequests, MaxAttempts)
    \/ \E p \in Procs : Respond(p)

SpecLoginSeq == Init /\ [][NextLoginSeq]_vars

(* Sessions: login, password reset, refresh and logout, the requests *)
(* served one at a time by one worker; a tick outlasts every lifetime *)
SessionTicks == {refreshExpiry}

SessionWorkers == {"w1"}

NextSession ==
    \/ Quiet /\ \E d \in SessionTicks : Tick(d)
    \/ \E p \in SessionWorkers : LoginStep(p, TRUE, SessionLoginRequests, MaxAttemptsSeq)
    \/ \E p \in SessionWorkers : ResetStep(p, TRUE, SessionEmails)
    \/ \E p \in SessionWorkers : SessionStep(p, TRUE)
    \/ \E p \in SessionWorkers : Respond(p)

SpecSession == InitSession /\ [][NextSession]_vars

(* Accounts: register, verification and its resend, the requests served *)
(* one at a time by one worker; a tick outlasts a verification token    *)
NextAccount ==
    \/ Quiet /\ Tick(VerificationTTL)
    \/ \E p \in SessionWorkers : RegisterStep(p, TRUE, RegisterRequests)
    \/ \E p \in SessionWorkers : VerifyStep(p, TRUE)
    \/ \E p \in SessionWorkers : ResendStep(p, TRUE, WellFormedEmails)
    \/ \E p \in SessionWorkers : Respond(p)

SpecAccount == Init /\ [][NextAccount]_vars

(* Every operation, the requests served one at a time by one worker *)
NextAll ==
    \/ Quiet /\ \E d \in SessionTicks : Tick(d)
    \/ \E p \in SessionWorkers : RegisterStep(p, TRUE, RegisterRequests)
    \/ \E p \in SessionWorkers : VerifyStep(p, TRUE)
    \/ \E p \in SessionWorkers : ResendStep(p, TRUE, WellFormedEmails)
    \/ \E p \in SessionWorkers : LoginStep(p, TRUE, LoginRequests, MaxAttemptsSeq)
    \/ \E p \in SessionWorkers : ResetStep(p, TRUE, WellFormedEmails)
    \/ \E p \in SessionWorkers : SessionStep(p, TRUE)
    \/ \E p \in SessionWorkers : Respond(p)

SpecAll == InitAll /\ [][NextAll]_vars

(* Every operation with statements that may fail, the requests served *)
(* one at a time by one worker                                         *)
StoreLoginRequests ==
    { [email |-> "a@x.io", password |-> Pw1], [email |-> "a@x.io", password |-> Pw2] }

StoreEmails == {"a@x.io", "b@x.io"}

StoreFailStep(p, ok) ==
    \/ ok /\ \E r \in RegisterRequests : RegisterSelectFails(p, r.email, r.password)
    \/ ok /\ \E salt \in Salts : RegisterInsertFails(p, salt)
    \/ ok /\ \E r \in StoreLoginRequests : LoginSelectFails(p, r.email, r.password)
    \/ ok /\ LoginFailUpdateFails(p)
    \/ ok /\ LoginResetUpdateFails(p)
    \/ ok /\ LoginInsertFails(p)
    \/ ok /\ \E token \in IssuedTokens : VerifySelectFails(p, token)
    \/ ok /\ VerifyUpdateFails(p)
    \/ ok /\ \E email \in StoreEmails : ResendSelectFails(p, email)
    \/ ok /\ ResendUpdateFails(p)
    \/ ok /\ \E email \in StoreEmails : ForgotSelectFails(p, email)
    \/ ok /\ ForgotUpdateFails(p)
    \/ ok /\ \E token \in IssuedTokens, newPassword \in NewPasswords : ResetSelectFails(p, token, newPassword)
    \/ ok /\ \E salt \in Salts : ResetUpdateFails(p, salt)
    \/ ok /\ ResetDeleteFails(p)
    \/ ok /\ \E token \in IssuedTokens : RefreshTokenFails(p, token)
    \/ ok /\ \E userID \in ContextUsers, token \in IssuedTokens : LogoutFails(p, userID, token)

NextStore ==
    \/ \E p \in SessionWorkers : RegisterStep(p, TRUE, RegisterRequests)
    \/ \E p \in SessionWorkers : VerifyStep(p, TRUE)
    \/ \E p \in SessionWorkers : ResendStep(p, TRUE, StoreEmails)
    \/ \E p \in SessionWorkers : LoginStep(p, TRUE, StoreLoginRequests, MaxAttemptsSeq)
    \/ \E p \in SessionWorkers : ResetStep(p, TRUE, StoreEmails)
    \/ \E p \in SessionWorkers : SessionStep(p, TRUE)
    \/ \E p \in SessionWorkers : StoreFailStep(p, TRUE)
    \/ \E p \in SessionWorkers : Respond(p)

SpecStore == InitAll /\ [][NextStore]_vars

-----------------------------------------------------------------------------
(* Package auth, jwt.go.  A string the code scans is a sequence of its *)
(* characters; durations are in whole minutes, as the clock is.        *)

Digits == {"0", "1", "2", "3", "4", "5", "6", "7", "8", "9"}

DigitValue(c) ==
    CASE c = "0" -> 0 [] c = "1" -> 1 [] c = "2" -> 2 [] c = "3" -> 3 [] c = "4" -> 4
      [] c = "5" -> 5 [] c = "6" -> 6 [] c = "7" -> 7 [] c = "8" -> 8 [] c = "9" -> 9

(* time.ParseDuration: an optional sign, then "0" or one or more groups *)
(* of digits, an optional fraction, and a unit                           *)
RECURSIVE leadingInt(_, _, _)
leadingInt(s, x, scale) ==
    IF s # <<>> /\ Head(s) \in Digits
      THEN leadingInt(Tail(s), x * 10 + DigitValue(Head(s)), scale * 10)
    ELSE [x |-> x, scale |-> scale, rem |-> s]

RECURSIVE unitLength(_)
unitLength(s) ==
    IF s = <<>> \/ Head(s) = "." \/ Head(s) \in Digits THEN 0 ELSE 1 + unitLength(Tail(s))

(* The units of a minute and more *)
unitMap == (<<"m">> :> 1) @@ (<<"h">> :> 60)

DurationError(message) == [d |-> 0, err |-> message]

RECURSIVE parseGroups(_, _)
parseGroups(s, d) ==
    IF s = <<>> THEN [d |-> d, err |-> NoError]
    ELSE IF ~(Head(s) = "." \/ Head(s) \in Digits) THEN DurationError("time: invalid duration")
    ELSE LET whole == leadingInt(s, 0, 1)
             pre == Len(whole.rem) # Len(s)
             dot == whole.rem # <<>> /\ Head(whole.rem) = "."
             frac == IF dot THEN leadingInt(Tail(whole.rem), 0, 1)
                     ELSE [x |-> 0, scale |-> 1, rem |-> whole.rem]
             post == dot /\ Len(frac.rem) # Len(whole.rem) - 1
             n == unitLength(frac.rem)
             u == SubSeq(frac.rem, 1, n)
         IN  IF ~pre /\ ~post THEN DurationError("time: invalid duration")
             ELSE IF n = 0 THEN DurationError("time: missing unit in duration")
             ELSE IF u \notin DOMAIN unitMap THEN DurationError("time: unknown unit in duration")
             ELSE parseGroups(SubSeq(frac.rem, n + 1, Len(frac.rem)),
                              d + whole.x * unitMap[u] + (frac.x * unitMap[u]) \div frac.scale)

ParseDuration(s) ==
    LET signed == s # <<>> /\ Head(s) \in {"-", "+"}
        neg == signed /\ Head(s) = "-"
        rest == IF signed THEN Tail(s) ELSE s
        parsed == parseGroups(rest, 0)
    IN  IF rest = <<"0">> THEN [d |-> 0, err |-> NoError]
        ELSE IF rest = <<>> THEN DurationError("time: invalid duration")
        ELSE IF parsed.err # NoError THEN parsed
        ELSE IF neg THEN [d |-> 0 - parsed.d, err |-> NoError]
        ELSE parsed

(* os.Setenv *)
Setenv(key, value) ==
    /\ env' = [env EXCEPT ![key] = value]
    /\ UNCHANGED <<authVars, jwt, ret, issued>>
    /\ UNCHANGED limiterVars

(* InitJWT that assigns nothing unless it succeeds *)
InitJWT_Atomic ==
    LET access == IF env.JWT_ACCESS_EXPIRY = <<>> THEN [d |-> accessExpiry, err |-> NoError]
                  ELSE ParseDuration(env.JWT_ACCESS_EXPIRY)
        refresh == IF env.JWT_REFRESH_EXPIRY = <<>> THEN [d |-> refreshExpiry, err |-> NoError]
                   ELSE ParseDuration(env.JWT_REFRESH_EXPIRY)
    IN  IF env.JWT_SECRET = ""
          THEN /\ jwt' = jwt
               /\ ret' = [fn |-> "InitJWT", args |-> env,
                          err |-> "JWT_SECRET environment variable is required"]
        ELSE IF access.err # NoError
          THEN /\ jwt' = jwt
               /\ ret' = [fn |-> "InitJWT", args |-> env, err |-> "invalid JWT_ACCESS_EXPIRY format"]
        ELSE IF refresh.err # NoError
          THEN /\ jwt' = jwt
               /\ ret' = [fn |-> "InitJWT", args |-> env, err |-> "invalid JWT_REFRESH_EXPIRY format"]
        ELSE /\ jwt' = [jwtSecret |-> env.JWT_SECRET, accessExpiry |-> access.d,
                        refreshExpiry |-> refresh.d]
             /\ ret' = [fn |-> "InitJWT", args |-> env, err |-> NoError]

(* InitJWT: an assignment made before the failing step stays made *)
InitJWT ==
    LET access == IF env.JWT_ACCESS_EXPIRY = <<>> THEN [d |-> accessExpiry, err |-> NoError]
                  ELSE ParseDuration(env.JWT_ACCESS_EXPIRY)
        refresh == IF env.JWT_REFRESH_EXPIRY = <<>> THEN [d |-> refreshExpiry, err |-> NoError]
                   ELSE ParseDuration(env.JWT_REFRESH_EXPIRY)
    IN  IF env.JWT_SECRET = ""
          THEN /\ jwt' = [jwt EXCEPT !.jwtSecret = ""]
               /\ ret' = [fn |-> "InitJWT", args |-> env,
                          err |-> "JWT_SECRET environment variable is required"]
        ELSE IF access.err # NoError
          THEN /\ jwt' = [jwt EXCEPT !.jwtSecret = env.JWT_SECRET, !.accessExpiry = access.d]
               /\ ret' = [fn |-> "InitJWT", args |-> env, err |-> "invalid JWT_ACCESS_EXPIRY format"]
        ELSE IF refresh.err # NoError
          THEN /\ jwt' = [jwtSecret |-> env.JWT_SECRET, accessExpiry |-> access.d,
                          refreshExpiry |-> refresh.d]
               /\ ret' = [fn |-> "InitJWT", args |-> env, err |-> "invalid JWT_REFRESH_EXPIRY format"]
        ELSE /\ jwt' = [jwtSecret |-> env.JWT_SECRET, accessExpiry |-> access.d,
                        refreshExpiry |-> refresh.d]
             /\ ret' = [fn |-> "InitJWT", args |-> env, err |-> NoError]

InitJWTCall ==
    /\ InitJWT
    /\ UNCHANGED <<authVars, env, issued>>
    /\ UNCHANGED limiterVars

(* The environment a deployment may set *)
Secrets == {"", "test-secret"}

AccessExpiryStrings ==
    { <<>>, <<"1", "5", "m">>, <<"1", "h", "3", "0", "m">>, <<"0">>, <<"-", "1", "5", "m">>,
      <<"1", "5">>, <<"i", "n", "v", "a", "l", "i", "d", "-", "d", "u", "r", "a", "t", "i", "o", "n">> }

RefreshExpiryStrings ==
    { <<>>, <<"1", "6", "8", "h">>, <<"-", "1", "h">>, <<"1", ".", "5", "h">>, <<"7", "d">> }

(* The package's variables before InitJWT has run *)
InitEnv ==
    /\ now = 0
    /\ ticks = 0
    /\ users = <<>>
    /\ refresh_tokens = {}
    /\ nextToken = 0
    /\ procs = [p \in Procs |-> Idle]
    /\ expected = <<>>
    /\ revoked = {}
    /\ env \in [JWT_SECRET : Secrets, JWT_ACCESS_EXPIRY : AccessExpiryStrings,
                JWT_REFRESH_EXPIRY : RefreshExpiryStrings]
    /\ jwt = [jwtSecret |-> "", accessExpiry |-> 0, refreshExpiry |-> 0]
    /\ ret = NoCall
    /\ issued = {}
    /\ rlm = [limiters |-> <<>>, mu |-> "free", rate |-> RegistrationEvery, burst |-> RegistrationBurst]
    /\ heap = <<>>
    /\ reqs = [g \in Goroutines |-> [pc |-> "idle", client |-> "", ip |-> <<>>, exists |-> FALSE,
                                     limiter |-> NULL, epoch |-> 0, served |-> 0, status |-> 0]]
    /\ hist = [arrived |-> 0, swept |-> 0, keysOf |-> {}, returned |-> {}, admitted |-> {},
               evictions |-> <<>>]

NextInitJWT ==
    \/ \E value \in Secrets : Setenv("JWT_SECRET", value)
    \/ \E value \in AccessExpiryStrings : Setenv("JWT_ACCESS_EXPIRY", value)
    \/ \E value \in RefreshExpiryStrings : Setenv("JWT_REFRESH_EXPIRY", value)
    \/ InitJWTCall

SpecInitJWT == InitEnv /\ [][NextInitJWT]_vars

(* GenerateAccessToken called for a user at the current time *)
GenerateAccessTokenCall(userID, email) ==
    /\ Cardinality(issued) < MaxIssued
    /\ LET tokenString == GenerateAccessToken(userID, email, now)
       IN  /\ ret' = [fn |-> "GenerateAccessToken", args |-> <<userID, email>>,
                      token |-> tokenString, err |-> NoError]
           /\ issued' = issued \cup {[token |-> tokenString, key |-> jwt.jwtSecret]}
    /\ UNCHANGED <<authVars, env, jwt>>
    /\ UNCHANGED limiterVars

(* ValidateAccessToken called at the current time *)
ValidateAccessTokenCall(tokenString) ==
    /\ LET validated == ValidateAccessToken(tokenString, now)
       IN  ret' = [fn |-> "ValidateAccessToken", args |-> tokenString, at |-> now,
                   key |-> jwt.jwtSecret, claims |-> validated.claims, err |-> validated.err]
    /\ UNCHANGED <<authVars, env, jwt, issued>>
    /\ UNCHANGED limiterVars

bearerPrefix == <<"B", "e", "a", "r", "e", "r", " ">>

(* ExtractTokenFromHeader with the prefix compared without its space *)
ExtractTokenFromHeader_NoSpace(authHeader) ==
    IF authHeader = <<>>
      THEN [token |-> <<>>, err |-> "authorization header is required"]
    ELSE IF Len(authHeader) < Len(bearerPrefix) - 1
            \/ SubSeq(authHeader, 1, Len(bearerPrefix) - 1) # SubSeq(bearerPrefix, 1, Len(bearerPrefix) - 1)
      THEN [token |-> <<>>, err |-> "authorization header must start with 'Bearer '"]
    ELSE LET token == SubSeq(authHeader, Len(bearerPrefix) + 1, Len(authHeader))
         IN  IF token = <<>> THEN [token |-> <<>>, err |-> "token cannot be empty"]
             ELSE [token |-> token, err |-> NoError]

ExtractTokenFromHeader(authHeader) ==
    IF authHeader = <<>>
      THEN [token |-> <<>>, err |-> "authorization header is required"]
    ELSE IF Len(authHeader) < Len(bearerPrefix)
            \/ SubSeq(authHeader, 1, Len(bearerPrefix)) # bearerPrefix
      THEN [token |-> <<>>, err |-> "authorization header must start with 'Bearer '"]
    ELSE LET token == SubSeq(authHeader, Len(bearerPrefix) + 1, Len(authHeader))
         IN  IF token = <<>> THEN [token |-> <<>>, err |-> "token cannot be empty"]
             ELSE [token |-> token, err |-> NoError]

ExtractTokenFromHeaderCall(authHeader) ==
    /\ LET extracted == ExtractTokenFromHeader(authHeader)
       IN  ret' = [fn |-> "ExtractTokenFromHeader", args |-> authHeader,
                   token |-> extracted.token, err |-> extracted.err]
    /\ UNCHANGED <<authVars, env, jwt, issued>>
    /\ UNCHANGED limiterVars

(* The secrets a deployment rotates between *)
TokenSecrets == {"test-secret", "different-secret"}

(* A tick reaches the expiry of a token issued at the tick before, or passes it *)
TokenTicks == {accessExpiry, accessExpiry + 1}

(* What a client may present: a token issued, or its claims under another *)
(* method or key                                                          *)
PresentedTokens ==
    {i.token : i \in issued}
        \cup {SignedString(method, ClaimsOf(i.token), key) :
                 i \in issued, method \in SigningMethods, key \in TokenSecrets}

Headers ==
    { <<>>, <<"B", "e", "a", "r", "e", "r">>, <<"B", "e", "a", "r">>,
      <<"B", "a", "s", "i", "c", " ", "x", "y", "z">>, bearerPrefix,
      bearerPrefix \o <<"a", "b", "c">>, <<"b", "e", "a", "r", "e", "r", " ", "a", "b", "c">>,
      bearerPrefix \o <<" ", "a", " ">>, <<"B", "e", "a", "r", "e", "r", "_", "a", "b", "c">>,
      <<" ">> \o bearerPrefix \o <<"a">> }

NextJWT ==
    \/ \E d \in TokenTicks : Tick(d)
    \/ \E value \in TokenSecrets : Setenv("JWT_SECRET", value)
    \/ InitJWTCall
    \/ \E id \in DOMAIN users : GenerateAccessTokenCall(id, users[id].email)
    \/ \E tokenString \in PresentedTokens : ValidateAccessTokenCall(tokenString)
    \/ \E authHeader \in Headers : ExtractTokenFromHeaderCall(authHeader)

SpecJWT == Init /\ [][NextJWT]_vars

-----------------------------------------------------------------------------
(* Package auth, password.go, called as a library: a run validates one *)
(* password, or hashes one and compares the hash with another          *)

ValidatePasswordCall(password) ==
    /\ ret = NoCall
    /\ ret' = [fn |-> "ValidatePassword", args |-> password, err |-> ValidatePassword(password)]
    /\ UNCHANGED <<authVars, env, jwt, issued>>
    /\ UNCHANGED limiterVars

HashPasswordCall(password, salt) ==
    /\ ret = NoCall
    /\ LET hashed == HashPassword(password, salt)
       IN  ret' = [fn |-> "HashPassword", args |-> password, hash |-> hashed.hash, err |-> hashed.err]
    /\ UNCHANGED <<authVars, env, jwt, issued>>
    /\ UNCHANGED limiterVars

(* ComparePassword called with the hash HashPassword just returned *)
ComparePasswordCall(password) ==
    /\ ret.fn = "HashPassword"
    /\ ret.err = NoError
    /\ ret' = [fn |-> "ComparePassword", args |-> <<ret.hash, password>>, hashed |-> ret.args,
               err |-> IF ComparePassword(ret.hash, password) THEN NoError
                       ELSE "crypto/bcrypt: hashedPassword is not the hash of the given password"]
    /\ UNCHANGED <<authVars, env, jwt, issued>>
    /\ UNCHANGED limiterVars

(* Passwords to try: a run of one character, a filling that cycles over *)
(* two characters of each chosen class, and a tail                      *)
Repeat(c, n) == [i \in 1..n |-> c]

CharacterClasses == {"upper", "lower", "digit", "special"}

Alphabet(classes) ==
    (IF "upper" \in classes THEN <<"A", "B">> ELSE <<>>)
        \o (IF "lower" \in classes THEN <<"c", "d">> ELSE <<>>)
        \o (IF "digit" \in classes THEN <<"7", "8">> ELSE <<>>)
        \o (IF "special" \in classes THEN <<"!", "#">> ELSE <<>>)

Fill(classes, n) == [i \in 1..n |-> Alphabet(classes)[(i % Len(Alphabet(classes))) + 1]]

PasswordOf(classes, n, run, tail) ==
    LET filling == n - run - Len(tail)
    IN  Repeat(Alphabet(classes)[1], run) \o Fill(classes, IF filling > 0 THEN filling ELSE 0) \o tail

PasswordLengths ==
    { MinPasswordLength - 1, MinPasswordLength, MinPasswordLength + 1,
      BcryptMaxLength, BcryptMaxLength + 1, MaxPasswordLength, MaxPasswordLength + 1 }

PasswordTails == { <<>>, <<"A", "d", "M", "i", "N">>, <<"1", "2", "3", "4", "5", "6">>, <<Backquote>> }

Passwords ==
    { PasswordOf(classes, n, run, tail) :
        classes \in (SUBSET CharacterClasses) \ {{}}, n \in PasswordLengths,
        run \in {1, 3, 4}, tail \in PasswordTails }
      \cup {Pw1, Pw2, PwShort, <<>>}

(* Passwords to compare with a hash: the valid ones and their extensions *)
ComparedPasswords ==
    LET valid == {p \in Passwords : ValidatePassword(p) = NoError}
    IN  valid \cup {p \o <<"x">> : p \in valid} \cup {SubSeq(p, 1, Len(p) - 1) : p \in valid}

NextPassword ==
    \/ \E password \in Passwords : ValidatePasswordCall(password)
    \/ \E password \in Passwords, salt \in Salts : HashPasswordCall(password, salt)
    \/ \E password \in ComparedPasswords : ComparePasswordCall(password)

SpecPassword == Init /\ [][NextPassword]_vars

-----------------------------------------------------------------------------
(* Package ratelimit.  The manager modelled is RegistrationRateLimit (the *)
(* password reset one has the same numbers); a token of the bucket is     *)
(* rlm.rate minutes of credit.                                            *)

(* r.RemoteAddr as net/http sets it: host:port *)
JoinHostPort(host, port) == <<host, ":", port>>

getClientIP(r) ==
    IF r.XForwardedFor # <<>> THEN r.XForwardedFor
    ELSE IF r.XRealIP # <<>> THEN r.XRealIP
    ELSE IF r.RemoteAddr = <<>> THEN <<"unknown">>
    ELSE r.RemoteAddr

(* A request that has not come yet *)
IdleRequest ==
    [pc |-> "idle", client |-> "", ip |-> <<>>, exists |-> FALSE, limiter |-> NULL,
     epoch |-> 0, served |-> 0, status |-> 0]

(* rate.NewLimiter inside a RateLimiter: a full bucket *)
NewLimiter(t) == [tokens |-> rlm.burst * rlm.rate, last |-> t, lastSeen |-> t]

(* The credit of a bucket at time t *)
Advance(l, t) ==
    LET tokens == l.tokens + (t - l.last)
    IN  IF tokens > rlm.burst * rlm.rate THEN rlm.burst * rlm.rate ELSE tokens

(* limiter.Allow that takes no token *)
LimiterAllow_NoCharge(l, t) ==
    IF Advance(l, t) >= rlm.rate
      THEN [ok |-> TRUE, limiter |-> [l EXCEPT !.tokens = Advance(l, t), !.last = t]]
    ELSE [ok |-> FALSE, limiter |-> l]

(* limiter.Allow *)
LimiterAllow(l, t) ==
    IF Advance(l, t) >= rlm.rate
      THEN [ok |-> TRUE, limiter |-> [l EXCEPT !.tokens = Advance(l, t) - rlm.rate, !.last = t]]
    ELSE [ok |-> FALSE, limiter |-> l]

(* rlm.mu.Lock without a mutex *)
MutexFree_NoMutex(g) == TRUE

(* rlm.mu.Lock can return *)
MutexFree(g) == rlm.mu = "free"

Evictions(key) == IF key \in DOMAIN hist.evictions THEN hist.evictions[key] ELSE 0

(* The objects the map or a request still points to; the others are collected *)
Live(map, requests) ==
    {map[key] : key \in DOMAIN map} \cup {requests[g].limiter : g \in DOMAIN requests}

Collect(objects, map, requests) ==
    [o \in DOMAIN objects \cap Live(map, requests) |-> objects[o]]

NewObject == CHOOSE o \in 1..(Cardinality(DOMAIN heap) + 1) : o \notin DOMAIN heap

(* RateLimitMiddleware: the request comes and its key is computed *)
RateLimitMiddleware(g, r) ==
    /\ reqs[g].pc = "idle"
    /\ hist.arrived < MaxRequests
    /\ reqs' = [reqs EXCEPT ![g] = [IdleRequest EXCEPT !.pc = "lock", !.client = r.client,
                                                        !.ip = getClientIP(r)]]
    /\ hist' = [hist EXCEPT !.arrived = @ + 1,
                            !.keysOf = @ \cup {[client |-> r.client, key |-> getClientIP(r)]}]
    /\ UNCHANGED <<authVars, env, jwt, ret, issued, rlm, heap>>

(* GetLimiter: rlm.mu.Lock() *)
GetLimiterLock(g) ==
    /\ reqs[g].pc = "lock"
    /\ MutexFree(g)
    /\ rlm' = [rlm EXCEPT !.mu = g]
    /\ reqs' = [reqs EXCEPT ![g].pc = "lookup"]
    /\ UNCHANGED <<authVars, env, jwt, ret, issued, heap, hist>>

(* GetLimiter: limiter, exists := rlm.limiters[ip] *)
GetLimiterLookup(g) ==
    /\ reqs[g].pc = "lookup"
    /\ reqs' = [reqs EXCEPT ![g] =
           [@ EXCEPT !.pc = "store",
                     !.exists = reqs[g].ip \in DOMAIN rlm.limiters,
                     !.limiter = IF reqs[g].ip \in DOMAIN rlm.limiters
                                 THEN rlm.limiters[reqs[g].ip] ELSE NULL]]
    /\ UNCHANGED <<authVars, env, jwt, ret, issued, rlm, heap, hist>>

(* GetLimiter: the entry is created or its lastSeen set; unlock; return *)
GetLimiterStore(g) ==
    /\ reqs[g].pc = "store"
    /\ LET ip == reqs[g].ip
           o == IF reqs[g].exists THEN reqs[g].limiter ELSE NewObject
       IN  /\ IF reqs[g].exists
                THEN /\ heap' = [heap EXCEPT ![o].lastSeen = now]
                     /\ rlm' = [rlm EXCEPT !.mu = "free"]
              ELSE /\ heap' = heap @@ (o :> NewLimiter(now))
                   /\ rlm' = [rlm EXCEPT !.mu = "free",
                                         !.limiters = (ip :> o) @@ rlm.limiters]
           /\ reqs' = [reqs EXCEPT ![g] = [@ EXCEPT !.pc = "allow", !.limiter = o,
                                                    !.epoch = Evictions(ip)]]
           /\ hist' = [hist EXCEPT !.returned =
                          @ \cup {[key |-> ip, epoch |-> Evictions(ip), object |-> o]}]
    /\ UNCHANGED <<authVars, env, jwt, ret, issued>>

(* limiter.Allow(), then 429 or next.ServeHTTP *)
Allow(g) ==
    /\ reqs[g].pc = "allow"
    /\ LET o == reqs[g].limiter
           allowed == LimiterAllow(heap[o], now)
           before == Cardinality({a \in hist.admitted : a.key = reqs[g].ip /\ a.at = now})
       IN  /\ heap' = [heap EXCEPT ![o] = allowed.limiter]
           /\ reqs' = [reqs EXCEPT ![g] =
                  [@ EXCEPT !.pc = "done",
                            !.served = IF allowed.ok THEN @ + 1 ELSE @,
                            !.status = IF allowed.ok THEN 200 ELSE 429]]
           /\ hist' = IF allowed.ok
                        THEN [hist EXCEPT !.admitted =
                                 @ \cup {[key |-> reqs[g].ip, at |-> now, n |-> before + 1]}]
                      ELSE hist
    /\ UNCHANGED <<authVars, env, jwt, ret, issued, rlm>>

(* The response is written; the request's goroutine ends *)
Finish(g) ==
    /\ reqs[g].pc = "done"
    /\ reqs' = [reqs EXCEPT ![g] = IdleRequest]
    /\ heap' = Collect(heap, rlm.limiters, reqs')
    /\ UNCHANGED <<authVars, env, jwt, ret, issued, rlm, hist>>

(* cleanup: at a tick of its ticker, under the lock, the entries idle for *)
(* more than IdleLimit are deleted                                        *)
cleanup ==
    /\ now % CleanupPeriod = 0
    /\ hist.swept < now
    /\ rlm.mu = "free"
    /\ LET old == {ip \in DOMAIN rlm.limiters : now - heap[rlm.limiters[ip]].lastSeen > IdleLimit}
           kept == [ip \in DOMAIN rlm.limiters \ old |-> rlm.limiters[ip]]
       IN  /\ rlm' = [rlm EXCEPT !.limiters = kept]
           /\ heap' = Collect(heap, kept, reqs)
           /\ hist' = [hist EXCEPT !.swept = now,
                                   !.evictions = [ip \in DOMAIN @ \cup old |->
                                                     IF ip \in old THEN Evictions(ip) + 1 ELSE @[ip]]]
    /\ UNCHANGED <<authVars, env, jwt, ret, issued, reqs>>

(* The requests: two connections of one client, and another client behind *)
(* a proxy that sets X-Forwarded-For                                      *)
LimiterRequests ==
    { [client |-> "10.0.0.1", XForwardedFor |-> <<>>, XRealIP |-> <<>>,
       RemoteAddr |-> JoinHostPort("10.0.0.1", "1111")],
      [client |-> "10.0.0.1", XForwardedFor |-> <<>>, XRealIP |-> <<>>,
       RemoteAddr |-> JoinHostPort("10.0.0.1", "2222")],
      [client |-> "10.0.0.2", XForwardedFor |-> <<"10.0.0.2">>, XRealIP |-> <<>>,
       RemoteAddr |-> JoinHostPort("10.0.0.9", "1111")] }

(* A tick to a run of cleanup past the idle limit *)
LimiterTicks == {CleanupPeriod + IdleLimit}

(* The goroutines are alike: the second serves only while the first is busy *)
Spare(g) == g = "g1" \/ reqs["g1"].pc # "idle"

(* No request is on its way *)
LimiterQuiet == \A g \in Goroutines : reqs[g].pc = "idle"

NextLimiter ==
    \/ LimiterQuiet /\ \E d \in LimiterTicks : Tick(d)
    \/ cleanup
    \/ \E g \in Goroutines, r \in LimiterRequests : Spare(g) /\ RateLimitMiddleware(g, r)
    \/ \E g \in Goroutines : GetLimiterLock(g)
    \/ \E g \in Goroutines : GetLimiterLookup(g)
    \/ \E g \in Goroutines : GetLimiterStore(g)
    \/ \E g \in Goroutines : Allow(g)
    \/ \E g \in Goroutines : Finish(g)

SpecLimiter == Init /\ [][NextLimiter]_vars

-----------------------------------------------------------------------------
(* Logins and password resets of one account by two concurrent workers.  *)
(* forgotPassword has stored reset token 0 for the first account at time *)
(* 0; its counter is 0, or 4 after four wrong logins.                    *)

RaceLoginRequests ==
    { [email |-> "a@x.io", password |-> Pw1], [email |-> "a@x.io", password |-> Pw2] }

InitRace ==
    /\ now = 0
    /\ ticks = 0
    /\ \E n \in {0, LockThreshold - 1} :
          /\ users = (1 :> UpdateResetToken(
                              [NewUser("a@x.io", HashPassword(Pw1, 1).hash, NULL, NULL)
                                  EXCEPT !.email_verified = TRUE, !.failed_login_attempts = n],
                              0, ResetTokenTTL))
          /\ expected = (1 :> n)
    /\ refresh_tokens = {}
    /\ nextToken = 1
    /\ procs = [p \in Procs |-> Idle]
    /\ revoked = {}
    /\ LibInit

RaceResetStep(p, ok) ==
    \/ ok /\ \E token \in IssuedTokens : ResetSelect(p, token, Pw2)
    \/ ok /\ \E salt \in Salts : ResetUpdate(p, salt)
    \/ ok /\ ResetDelete(p)

NextRace ==
    \/ \E p \in Procs : LoginStep(p, Quiet, RaceLoginRequests, MaxAttempts)
    \/ \E p \in Procs : RaceResetStep(p, Quiet)
    \/ \E p \in Procs : Respond(p)

SpecRace == InitRace /\ [][NextRace]_vars

-----------------------------------------------------------------------------
(* Registrations by two concurrent workers *)

RaceRegisterRequests == RegisterRequests \cup {[email |-> "c@x.io", password |-> Pw2]}

NextRegister ==
    \/ \E p \in Procs : RegisterStep(p, Quiet, RaceRegisterRequests)
    \/ \E p \in Procs : Respond(p)

SpecRegister == Init /\ [][NextRegister]_vars

-----------------------------------------------------------------------------
(* Package auth, middleware.go: RequireAuth before a protected handler.  *)
(* A token string on the wire is the pair of the mark "jwt" and the      *)
(* token; any other string is malformed.                                 *)

Compact(token) == <<"jwt", token>>

IsCompact(tokenString) == Len(tokenString) = 2 /\ tokenString[1] = "jwt"

(* jwt.ParseWithClaims on the string of the header, at time t *)
ParseWithClaims(tokenString, t) ==
    IF IsCompact(tokenString) THEN ValidateAccessToken(tokenString[2], t)
    ELSE [NoToken EXCEPT !.err = "token is malformed"]

(* SELECT EXISTS ... WHERE id = $1, whatever email_verified is *)
UserExists_AnyUser(rows, userID) == userID \in DOMAIN rows

(* SELECT EXISTS ... only for a user that has a refresh token stored *)
UserExists_WithSession(rows, userID) ==
    /\ userID \in DOMAIN rows
    /\ rows[userID].email_verified
    /\ \E r \in refresh_tokens : r.user_id = userID

(* SELECT EXISTS(SELECT 1 FROM users WHERE id = $1 AND email_verified = true) *)
UserExists(rows, userID) == userID \in DOMAIN rows /\ rows[userID].email_verified

(* RequireAuth: the header, the token, the user; then next.ServeHTTP with *)
(* the user id and email of the claims in the context                     *)
RequireAuth(p, authHeader) ==
    /\ procs[p].pc = "idle"
    /\ LET req == [Idle EXCEPT !.op = "requireAuth", !.authorization = authHeader]
           extracted == ExtractTokenFromHeader(authHeader)
           validated == ParseWithClaims(extracted.token, now)
           claims == validated.claims
       IN  IF extracted.err # NoError
             THEN procs' = [procs EXCEPT ![p] = Done(req, writeErrorResponse(401, "Authentication required"))]
           ELSE IF validated.err # NoError
             THEN procs' = [procs EXCEPT ![p] = Done(req, writeErrorResponse(401, "Invalid token"))]
           ELSE IF ~UserExists(users, claims.UserID)
             THEN procs' = [procs EXCEPT ![p] =
                      Done(req, writeErrorResponse(401, "User not found or not verified"))]
           ELSE procs' = [procs EXCEPT ![p] =
                    [req EXCEPT !.pc = "next", !.uid = claims.UserID, !.user_email = claims.Email]]
    /\ UNCHANGED <<now, users, refresh_tokens, nextToken, ticks, expected, revoked>>
    /\ UNCHANGED libVars

(* RequireAuth when the SELECT EXISTS fails *)
RequireAuthSelectFails(p, authHeader) ==
    /\ procs[p].pc = "idle"
    /\ ExtractTokenFromHeader(authHeader).err = NoError
    /\ ParseWithClaims(ExtractTokenFromHeader(authHeader).token, now).err = NoError
    /\ StoreFails(p, [Idle EXCEPT !.op = "requireAuth", !.authorization = authHeader],
                  writeErrorResponse(500, "Database error"))

(* LogoutHandler as the protected handler: the user id is the context's *)
ServeLogout(p, token) ==
    /\ procs[p].pc = "next"
    /\ LET req == [procs[p] EXCEPT !.op = "logout", !.token = token]
           remaining == DeleteRefreshToken(refresh_tokens, token, procs[p].uid)
           rowsAffected == Cardinality(refresh_tokens) - Cardinality(remaining)
       IN  /\ refresh_tokens' = remaining
           /\ procs' = [procs EXCEPT ![p] =
                  Done(req, IF rowsAffected = 0
                            THEN writeErrorResponse(400, "Invalid refresh token")
                            ELSE SuccessResponse(200, "Logged out successfully"))]
    /\ UNCHANGED <<now, users, nextToken, ticks, expected, revoked>>
    /\ UNCHANGED libVars

(* The response of a login reaches the client, which keeps its tokens *)
Deliver(p) ==
    /\ procs[p].pc = "done"
    /\ procs[p].op = "login"
    /\ procs[p].result.status = 200
    /\ issued' = issued \cup {[token |-> procs[p].result.access, key |-> jwt.jwtSecret,
                               refresh |-> procs[p].result.refresh]}
    /\ procs' = [procs EXCEPT ![p] = Idle]
    /\ UNCHANGED <<now, users, refresh_tokens, nextToken, ticks, expected, revoked>>
    /\ UNCHANGED <<env, jwt, ret>>
    /\ UNCHANGED limiterVars

(* The store: the first account verified, with the reset token 1 that a *)
(* forgotPassword stored at time 0; the second account not verified     *)
InitAuth ==
    /\ now = 0
    /\ ticks = 0
    /\ users = (1 :> UpdateResetToken(
                        [NewUser("a@x.io", HashPassword(Pw1, 1).hash, NULL, NULL)
                            EXCEPT !.email_verified = TRUE],
                        1, ResetTokenTTL))
            @@ (2 :> NewUser("b@x.io", HashPassword(Pw1, 2).hash, 0, VerificationTTL))
    /\ refresh_tokens = {}
    /\ nextToken = 2
    /\ procs = [p \in Procs |-> Idle]
    /\ expected = [id \in {1, 2} |-> 0]
    /\ revoked = {}
    /\ LibInit

(* A tick to the minute before an access token of time 0 expires, or to *)
(* the minute it expires                                                *)
AuthTicks == {accessExpiry - 1, accessExpiry}

(* The tokens a client may present: the ones delivered, their claims     *)
(* under another method or key, and tokens under the server's key for    *)
(* the unverified account and for an account that is not in the table    *)
AuthTokens ==
    {i.token : i \in issued}
        \cup {SignedString(method, ClaimsOf(i.token), key) :
                 i \in issued, method \in {"HS256", "none"}, key \in TokenSecrets}
        \cup {GenerateAccessToken(2, "b@x.io", 0), GenerateAccessToken(3, "c@x.io", 0)}

AuthHeaders ==
    Headers \cup {bearerPrefix \o Compact(token) : token \in AuthTokens}
            \cup {Compact(token) : token \in AuthTokens}

NextAuth ==
    \/ Quiet /\ \E d \in AuthTicks : Tick(d)
    \/ \E p \in SessionWorkers : LoginStep(p, TRUE, RaceLoginRequests, MaxAttemptsSeq)
    \/ \E p \in SessionWorkers : RaceResetStep(p, TRUE)
    \/ \E p \in SessionWorkers, authHeader \in AuthHeaders : RequireAuth(p, authHeader)
    \/ \E p \in SessionWorkers, authHeader \in AuthHeaders : RequireAuthSelectFails(p, authHeader)
    \/ \E p \in SessionWorkers, token \in IssuedTokens : ServeLogout(p, token)
    \/ \E p \in SessionWorkers : Deliver(p)
    \/ \E p \in SessionWorkers : Respond(p)

SpecAuth == InitAuth /\ [][NextAuth]_vars

-----------------------------------------------------------------------------
(* Properties of LoginHandler *)

(* C1: a login for an account whose locked_until is set and later than now *)
(* is answered 423 "Account locked" in its first step, whatever password   *)
(* it carries; no user row and no refresh-token row changes.               *)
C1_LockedLoginRefused ==
    [][\A p \in Procs : \A id \in DOMAIN users :
          ( /\ procs[p].pc = "idle"
            /\ procs'[p].op = "login"
            /\ procs'[p].email = users[id].email
            /\ users[id].locked_until # NULL
            /\ users[id].locked_until > now )
          => ( /\ procs'[p].pc = "done"
               /\ procs'[p].result.status = 423
               /\ procs'[p].result.error = "Account locked"
               /\ procs'[p].result.refresh = NULL
               /\ users' = users
               /\ refresh_tokens' = refresh_tokens )]_vars

(* A login with the right password was refused because of the lock *)
C1_Witness ==
    \E p \in Procs : \E id \in DOMAIN users :
        /\ procs[p].pc = "done" /\ procs[p].op = "login"
        /\ procs[p].result.status = 423
        /\ procs[p].email = users[id].email
        /\ ComparePassword(users[id].password_hash, procs[p].password)
        /\ users[id].failed_login_attempts = LockThreshold
        /\ users[id].locked_until > now

(* C2: logins served one at a time.  The k-th wrong password in a row,   *)
(* k <= 5, is answered 401 "Invalid credentials" and leaves the counter  *)
(* at k; locked_until stays null for k < 5 and is now + 15 minutes for   *)
(* k = 5.  A login made after the fifth and before locked_until is       *)
(* answered 423 and leaves the counter at 5.                             *)
C2_FifthFailureLocks ==
    [][\A p \in Procs :
          /\ ( /\ procs[p].pc = "login_fail_update"
               /\ procs'[p].pc = "done"
               /\ expected[procs[p].userID] # NULL
               /\ expected[procs[p].userID] < LockThreshold )
             => LET id == procs[p].userID
                    k == expected[id] + 1
                IN  /\ procs'[p].result.status = 401
                    /\ procs'[p].result.error = "Invalid credentials"
                    /\ users'[id].failed_login_attempts = k
                    /\ users'[id].locked_until =
                           IF k = LockThreshold THEN now + LockDuration ELSE NULL
          /\ \A id \in DOMAIN users :
               ( /\ procs[p].pc = "idle"
                 /\ procs'[p].op = "login"
                 /\ procs'[p].email = users[id].email
                 /\ expected[id] = LockThreshold
                 /\ users[id].locked_until # NULL
                 /\ now < users[id].locked_until )
               => ( /\ procs'[p].result.status = 423
                    /\ users'[id].failed_login_attempts = LockThreshold )]_vars

(* The sixth login after five wrong passwords was refused as locked *)
C2_Witness ==
    \E p \in Procs : \E id \in DOMAIN users :
        /\ procs[p].pc = "done" /\ procs[p].op = "login"
        /\ procs[p].email = users[id].email
        /\ procs[p].result.status = 423
        /\ expected[id] = LockThreshold
        /\ users[id].failed_login_attempts = LockThreshold
        /\ users[id].locked_until = LockDuration

(* C3: no increment of failed_login_attempts is lost.  When k logins with *)
(* a wrong password have finished since the counter was last 0, with no   *)
(* reset of the counter racing them, and none is still to write, the      *)
(* counter is k.                                                          *)
C3_NoLostIncrement ==
    \A id \in DOMAIN users :
        (expected[id] # NULL /\ ~FailWritePending(id))
        => users[id].failed_login_attempts = expected[id]

(* C4: the write of a failed login never removes or shortens a lock that *)
(* is still in the future when the write happens.                        *)
C4_FutureLockSurvivesFailedLogin ==
    [][\A p \in Procs :
          ( /\ procs[p].pc = "login_fail_update"
            /\ procs'[p].pc = "done"
            /\ users[procs[p].userID].locked_until # NULL
            /\ users[procs[p].userID].locked_until > now )
          => ( /\ users'[procs[p].userID].locked_until # NULL
               /\ users'[procs[p].userID].locked_until >=
                      users[procs[p].userID].locked_until )]_vars

C6_UnverifiedLoginRefused ==
    [][\A p \in Procs : \A id \in DOMAIN users :
          ( /\ procs[p].pc = "idle"
            /\ procs'[p].op = "login"
            /\ procs'[p].email = users[id].email
            /\ ~users[id].email_verified
            /\ ~(users[id].locked_until # NULL /\ users[id].locked_until > now) )
          => ( /\ procs'[p].pc = "done"
               /\ procs'[p].result.status = 403
               /\ procs'[p].result.error = "Email not verified"
               /\ procs'[p].result.refresh = NULL
               /\ users' = users
               /\ refresh_tokens' = refresh_tokens )]_vars

(* A login with the right password was refused for the unverified email *)
C6_Witness ==
    \E p \in Procs : \E id \in DOMAIN users :
        /\ procs[p].pc = "done" /\ procs[p].op = "login"
        /\ procs[p].result.status = 403
        /\ procs[p].email = users[id].email
        /\ ~users[id].email_verified
        /\ ComparePassword(users[id].password_hash, procs[p].password)

-----------------------------------------------------------------------------
(* Properties of ResetPasswordHandler, RefreshTokenHandler, LogoutHandler *)

C9_RefreshToken ==
    [][\A p \in Procs :
          ( procs[p].pc = "idle" /\ procs'[p].op = "refreshToken" )
          => LET t == procs'[p].token
                 valid == {r \in refresh_tokens :
                              /\ r.token = t
                              /\ r.expires_at > now
                              /\ users[r.user_id].email_verified}
                 res == procs'[p].result
             IN  /\ procs'[p].pc = "done"
                 /\ (res.status = 200) <=> (valid # {})
                 /\ valid # {} =>
                       \E r \in valid :
                           /\ res.access.UserID = r.user_id
                           /\ res.access.Email = users[r.user_id].email
                           /\ res.access.IssuedAt = now
                           /\ res.access.ExpiresAt = now + accessExpiry
                 /\ valid = {} =>
                       /\ res.status = 401
                       /\ res.error = "Invalid or expired refresh token"
                       /\ res.access = NoClaims
                 /\ res.refresh = NULL
                 /\ users' = users
                 /\ refresh_tokens' = refresh_tokens]_vars

(* A refresh was answered 200 and its token is still stored *)
C9_Witness ==
    \E p \in Procs : \E r \in refresh_tokens :
        /\ procs[p].pc = "done" /\ procs[p].op = "refreshToken"
        /\ procs[p].result.status = 200
        /\ r.token = procs[p].token
        /\ procs[p].result.access.UserID = r.user_id

(* C10: logout(userID, t) removes the rows with token t and owner userID, *)
(* at most one, and no other row, and is answered 200 when it removed a   *)
(* row; when there is none, also when t is a token of another user, it is *)
(* answered 400 "Invalid refresh token" and removes nothing.  No user row *)
(* changes.                                                               *)
C10_Logout ==
    [][\A p \in Procs :
          ( procs[p].pc = "idle" /\ procs'[p].op = "logout" )
          => LET match == {r \in refresh_tokens :
                              r.token = procs'[p].token /\ r.user_id = procs'[p].uid}
                 res == procs'[p].result
             IN  /\ procs'[p].pc = "done"
                 /\ Cardinality(match) <= 1
                 /\ refresh_tokens' = refresh_tokens \ match
                 /\ users' = users
                 /\ match # {} => res.status = 200
                 /\ match = {} =>
                       /\ res.status = 400
                       /\ res.error = "Invalid refresh token"
                       /\ refresh_tokens' = refresh_tokens]_vars

(* A logout with the stored token of another user was answered 400 and *)
(* the row is still there                                              *)
C10_Witness ==
    \E p \in Procs : \E r \in refresh_tokens :
        /\ procs[p].pc = "done" /\ procs[p].op = "logout"
        /\ procs[p].result.status = 400
        /\ r.token = procs[p].token
        /\ r.user_id # procs[p].uid

-----------------------------------------------------------------------------
(* Properties over all operations *)

(* C11: no step changes a stored refresh-token row; a step that changes  *)
(* the set of rows is the INSERT of a login answered 200, which adds one *)
(* row, a logout answered 200, which removes the one row with its token  *)
(* and user, or the DELETE of a password reset, which removes the rows   *)
(* of its user; the steps of register, verifyEmail, resendVerification,  *)
(* forgotPassword, refreshToken and of logins not answered 200 leave the *)
(* set as it is.                                                         *)
C11_RefreshTokenLifecycle ==
    [][/\ \A r \in refresh_tokens : \A r2 \in refresh_tokens' :
             r2.token = r.token => r2 = r
       /\ (refresh_tokens' # refresh_tokens) =>
             \E p \in Procs :
                \/ /\ procs[p].pc = "login_insert"
                   /\ procs'[p].result.status = 200
                   /\ refresh_tokens \subseteq refresh_tokens'
                   /\ Cardinality(refresh_tokens' \ refresh_tokens) = 1
                \/ /\ procs[p].pc = "idle"
                   /\ procs'[p].op = "logout"
                   /\ procs'[p].result.status = 200
                   /\ refresh_tokens' = refresh_tokens \
                          {r \in refresh_tokens : r.token = procs'[p].token /\ r.user_id = procs'[p].uid}
                   /\ Cardinality(refresh_tokens \ refresh_tokens') = 1
                \/ /\ procs[p].pc = "reset_delete"
                   /\ procs'[p].result.status = 200
                   /\ refresh_tokens' = {r \in refresh_tokens : r.user_id # procs[p].userID}
       /\ \A p \in Procs :
             ( /\ procs'[p] # procs[p]
               /\ \/ procs'[p].op \in {"register", "verifyEmail", "resendVerification",
                                       "forgotPassword", "refreshToken"}
                  \/ procs'[p].op = "login" /\ procs'[p].pc = "done"
                                            /\ procs'[p].result.status # 200 )
             => refresh_tokens' = refresh_tokens]_vars

(* A register was answered 201 and the row stored by the earlier login *)
(* is still there as it was                                            *)
C11_Witness ==
    \E p \in Procs :
        /\ procs[p].pc = "done" /\ procs[p].op = "register"
        /\ procs[p].result.status = 201
        /\ [token |-> 1, user_id |-> 1, expires_at |-> refreshExpiry] \in refresh_tokens

-----------------------------------------------------------------------------
(* Properties of RegisterHandler, VerifyEmailHandler and               *)
(* ResendVerificationHandler                                           *)

(* C12: register with the email of an existing user row and a password *)
(* the policy accepts is answered 409 "Email already registered" in    *)
(* its first step; no user row and no refresh-token row changes.       *)
C12_RegisterConflict ==
    [][\A p \in Procs : \A id \in DOMAIN users :
          ( /\ procs[p].pc = "idle"
            /\ procs'[p].op = "register"
            /\ procs'[p].email = users[id].email
            /\ ValidatePassword(procs'[p].password) = NoError )
          => ( /\ procs'[p].pc = "done"
               /\ procs'[p].result.status = 409
               /\ procs'[p].result.error = "Email already registered"
               /\ users' = users
               /\ refresh_tokens' = refresh_tokens )]_vars

(* A register for the email of an account, with another password than *)
(* the account's, was answered 409                                    *)
C12_Witness ==
    \E p \in Procs : \E id \in DOMAIN users :
        /\ procs[p].pc = "done" /\ procs[p].op = "register"
        /\ procs[p].result.status = 409
        /\ procs[p].email = users[id].email
        /\ ~ComparePassword(users[id].password_hash, procs[p].password)

(* C13: the INSERT of a register whose email no row has and whose        *)
(* password bcrypt accepts adds one user row and changes no other: the   *)
(* row has the email, a hash of the password, email_verified false,      *)
(* counter 0, no lock, no reset token, and a fresh verification token    *)
(* that expires 24 hours after now.  The answer is 201 whether the       *)
(* verification mail was sent or not.                                    *)
C13_RegisterCreatesUser ==
    [][\A p \in Procs :
          ( /\ procs[p].pc = "register_insert"
            /\ procs'[p].pc # procs[p].pc
            /\ Len(procs[p].password) <= BcryptMaxLength
            /\ \A id \in DOMAIN users : users[id].email # procs[p].email )
          => /\ procs'[p].pc = "done"
             /\ procs'[p].mail \in {"sent", "failed"}
             /\ procs'[p].result.status = 201
             /\ procs'[p].result.message = RegisterMessage
             /\ DOMAIN users \subseteq DOMAIN users'
             /\ Cardinality(DOMAIN users' \ DOMAIN users) = 1
             /\ \A id \in DOMAIN users : users'[id] = users[id]
             /\ \A id \in DOMAIN users' \ DOMAIN users :
                   /\ users'[id].email = procs[p].email
                   /\ ComparePassword(users'[id].password_hash, procs[p].password)
                   /\ users'[id].email_verified = FALSE
                   /\ users'[id].failed_login_attempts = 0
                   /\ users'[id].locked_until = NULL
                   /\ users'[id].reset_token = NULL
                   /\ users'[id].reset_token_expires = NULL
                   /\ users'[id].verification_token # NULL
                   /\ \A o \in DOMAIN users :
                         users[o].verification_token # users'[id].verification_token
                   /\ users'[id].verification_token_expires = now + VerificationTTL
             /\ refresh_tokens' = refresh_tokens]_vars

(* A register whose verification mail failed was answered 201 and its *)
(* row is stored                                                      *)
C13_Witness ==
    \E p \in Procs : \E id \in DOMAIN users :
        /\ procs[p].pc = "done" /\ procs[p].op = "register"
        /\ procs[p].mail = "failed"
        /\ procs[p].result.status = 201
        /\ procs[p].userID = id
        /\ users[id].email = procs[p].email
        /\ ~users[id].email_verified
        /\ users[id].verification_token_expires = now + VerificationTTL

(* C14: verifyEmail(token) goes on to its UPDATE exactly when some user  *)
(* has that verification token with an expiry later than now; the UPDATE *)
(* sets that user's email_verified and nulls both verification fields,   *)
(* changes nothing else, and is answered 200.  Otherwise the answer is   *)
(* 400 and no user row changes, also for a stored token that expired.    *)
C14_VerifyEmail ==
    [][\A p \in Procs :
          /\ ( procs[p].pc = "idle" /\ procs'[p].op = "verifyEmail" )
             => LET t == procs'[p].token
                    valid == {id \in DOMAIN users :
                                 /\ users[id].verification_token # NULL
                                 /\ users[id].verification_token = t
                                 /\ users[id].verification_token_expires > now}
                IN  /\ users' = users
                    /\ refresh_tokens' = refresh_tokens
                    /\ valid # {} =>
                          procs'[p].pc = "verify_update" /\ procs'[p].userID \in valid
                    /\ valid = {} =>
                          /\ procs'[p].pc = "done"
                          /\ procs'[p].result.status = 400
                          /\ procs'[p].result.error \in {"Token required", "Invalid or expired token"}
          /\ ( procs[p].pc = "verify_update" /\ procs'[p].pc # procs[p].pc )
             => LET id == procs[p].userID
                IN  /\ procs'[p].pc = "done"
                    /\ procs'[p].result.status = 200
                    /\ users'[id].email_verified
                    /\ users' = [users EXCEPT ![id].email_verified = TRUE,
                                              ![id].verification_token = NULL,
                                              ![id].verification_token_expires = NULL]
                    /\ refresh_tokens' = refresh_tokens
          /\ ( procs'[p].op = "verifyEmail" /\ procs'[p].result.status = 200 )
             => procs[p].pc \in {"verify_update", "done"}]_vars

(* A verifyEmail with a token that is still stored, after its expiry, *)
(* was answered 400 and the account is still unverified               *)
C14_Witness ==
    \E p \in Procs : \E id \in DOMAIN users :
        /\ procs[p].pc = "done" /\ procs[p].op = "verifyEmail"
        /\ procs[p].result.status = 400
        /\ procs[p].token # NULL
        /\ users[id].verification_token = procs[p].token
        /\ users[id].verification_token_expires <= now
        /\ ~users[id].email_verified

-----------------------------------------------------------------------------
(* Invariants of the users table over all operations *)

(* C15: no step of any operation takes a user row away or sets its *)
(* email_verified from true back to false.                         *)
C15_EmailVerifiedMonotonic ==
    [][\A id \in DOMAIN users :
          users[id].email_verified
          => (id \in DOMAIN users' /\ users'[id].email_verified)]_vars

(* The account that was unverified at the start was verified, and then *)
(* logged in to or given a new password                                *)
C15_Witness ==
    \E p \in Procs :
        /\ procs[p].pc = "done"
        /\ procs[p].op \in {"login", "resetPassword"}
        /\ procs[p].result.status = 200
        /\ procs[p].userID = 2
        /\ users[2].email_verified

(* C16: for every user, verification_token and                        *)
(* verification_token_expires are both null or both set, and so are   *)
(* reset_token and reset_token_expires.                               *)
C16_TokenPairs ==
    \A id \in DOMAIN users :
        /\ (users[id].verification_token = NULL) <=> (users[id].verification_token_expires = NULL)
        /\ (users[id].reset_token = NULL) <=> (users[id].reset_token_expires = NULL)

(* A password reset was answered 200 for an account that is still      *)
(* unverified: its verification pair is set and its reset pair is null *)
(* again                                                               *)
C16_Witness ==
    \E p \in Procs :
        /\ procs[p].pc = "done" /\ procs[p].op = "resetPassword"
        /\ procs[p].result.status = 200
        /\ users[procs[p].userID].reset_token = NULL
        /\ users[procs[p].userID].reset_token_expires = NULL
        /\ users[procs[p].userID].verification_token # NULL
        /\ users[procs[p].userID].verification_token_expires # NULL

-----------------------------------------------------------------------------
(* Properties of ResendVerificationHandler, ForgotPasswordHandler and the *)
(* answers that hide whether an account exists                            *)

(* C17: resendVerification for an email without account is answered 200 *)
(* with the generic message and changes nothing; for a verified account *)
(* it is answered 400 "Email already verified" and changes nothing; for *)
(* an unverified account its UPDATE stores a fresh verification token   *)
(* that expires 24 hours after now, changes nothing else, and the       *)
(* answer is 500 when the mail was not sent, 200 when it was.           *)
C17_ResendVerification ==
    [][\A p \in Procs :
          /\ ( /\ procs[p].pc = "idle"
               /\ procs'[p].op = "resendVerification"
               /\ isValidEmail(procs'[p].email) )
             => LET found == {id \in DOMAIN users : users[id].email = procs'[p].email}
                IN  /\ users' = users
                    /\ refresh_tokens' = refresh_tokens
                    /\ found = {} =>
                          /\ procs'[p].pc = "done"
                          /\ procs'[p].result = ResendNoAccountResponse
                          /\ procs'[p].result.status = 200
                    /\ \A id \in found :
                          IF users[id].email_verified
                          THEN /\ procs'[p].pc = "done"
                               /\ procs'[p].result.status = 400
                               /\ procs'[p].result.error = "Email already verified"
                          ELSE /\ procs'[p].pc = "resend_update"
                               /\ procs'[p].userID = id
          /\ ( procs[p].pc = "resend_update" /\ procs'[p].pc # procs[p].pc )
             => LET id == procs[p].userID
                IN  /\ procs'[p].pc = "done"
                    /\ users'[id].verification_token # NULL
                    /\ \A o \in DOMAIN users :
                          users[o].verification_token # users'[id].verification_token
                    /\ users'[id].verification_token_expires = now + VerificationTTL
                    /\ users' = [users EXCEPT
                          ![id].verification_token = users'[id].verification_token,
                          ![id].verification_token_expires = now + VerificationTTL]
                    /\ refresh_tokens' = refresh_tokens
                    /\ procs'[p].mail \in {"sent", "failed"}
                    /\ procs'[p].mail = "failed" =>
                          procs'[p].result.status = 500 /\ procs'[p].result.error # ""
                    /\ procs'[p].mail = "sent" => procs'[p].result.status = 200]_vars

(* A resend whose mail failed was answered 500 and the new token with *)
(* its new expiry is stored                                           *)
C17_Witness ==
    \E p \in Procs :
        /\ procs[p].pc = "done" /\ procs[p].op = "resendVerification"
        /\ procs[p].mail = "failed"
        /\ procs[p].result.status = 500
        /\ users[procs[p].userID].verification_token = nextToken - 1
        /\ users[procs[p].userID].verification_token_expires = now + VerificationTTL
        /\ now > 0

C19_LoginHidesAccount ==
    [][\A p \in Procs :
          /\ ( /\ procs[p].pc = "idle"
               /\ procs'[p].op = "login"
               /\ isValidEmail(procs'[p].email)
               /\ \A id \in DOMAIN users : users[id].email # procs'[p].email )
             => ( /\ procs'[p].pc = "done"
                  /\ procs'[p].result = writeErrorResponse(401, "Invalid credentials")
                  /\ users' = users
                  /\ refresh_tokens' = refresh_tokens )
          /\ ( procs[p].pc = "login_fail_update" /\ procs'[p].pc # procs[p].pc )
             => ( /\ procs'[p].pc = "done"
                  /\ ~ComparePassword(users[procs[p].userID].password_hash, procs[p].password)
                  /\ procs'[p].result = writeErrorResponse(401, "Invalid credentials") )]_vars

(* A login for an email without account was answered as a wrong *)
(* password is                                                  *)
C19_Witness ==
    \E p \in Procs :
        /\ procs[p].pc = "done" /\ procs[p].op = "login"
        /\ isValidEmail(procs[p].email)
        /\ \A id \in DOMAIN users : users[id].email # procs[p].email
        /\ procs[p].result.status = 401
        /\ procs[p].result.error = "Invalid credentials"

(* C20: resetPassword with a password the policy refuses is answered    *)
(* 400 "Password validation failed" in its first step, also when its    *)
(* token is a valid one; with an accepted password and a token that no  *)
(* user has with an expiry later than now it is answered 400 "Invalid   *)
(* or expired reset token"; a resetPassword not answered 200 changes no *)
(* user row and no refresh-token row.                                   *)
C20_FailedResetChangesNothing ==
    [][\A p \in Procs :
          /\ ( procs[p].pc = "idle" /\ procs'[p].op = "resetPassword" )
             => LET valid == {id \in DOMAIN users :
                                 /\ users[id].reset_token # NULL
                                 /\ users[id].reset_token = procs'[p].token
                                 /\ users[id].reset_token_expires > now}
                IN  /\ users' = users
                    /\ refresh_tokens' = refresh_tokens
                    /\ ValidatePassword(procs'[p].password) # NoError =>
                          /\ procs'[p].pc = "done"
                          /\ procs'[p].result.status = 400
                          /\ procs'[p].result.error = "Password validation failed"
                    /\ (ValidatePassword(procs'[p].password) = NoError /\ valid = {}) =>
                          /\ procs'[p].pc = "done"
                          /\ procs'[p].result.status = 400
                          /\ procs'[p].result.error = "Invalid or expired reset token"
          /\ ( /\ procs'[p] # procs[p]
               /\ procs'[p].op = "resetPassword"
               /\ procs'[p].pc = "done"
               /\ procs'[p].result.status # 200 )
             => (users' = users /\ refresh_tokens' = refresh_tokens)]_vars

(* A resetPassword with an accepted password and a stored reset token, *)
(* after its expiry, was answered 400; the token pair, the hash and    *)
(* the user's session are as they were                                 *)
C20_Witness ==
    \E p \in Procs : \E id \in DOMAIN users :
        /\ procs[p].pc = "done" /\ procs[p].op = "resetPassword"
        /\ procs[p].result.status = 400
        /\ ValidatePassword(procs[p].password) = NoError
        /\ procs[p].token # NULL
        /\ users[id].reset_token = procs[p].token
        /\ users[id].reset_token_expires <= now
        /\ ~ComparePassword(users[id].password_hash, procs[p].password)
        /\ \E r \in refresh_tokens : r.user_id = id

-----------------------------------------------------------------------------
(* Properties under store failures *)

(* C21: a request one of whose store statements failed is answered with *)
(* the internal failure (500), never with success or a domain failure   *)
C21_StoreFailureIsInternalError ==
    \A p \in Procs :
        (procs[p].pc = "done" /\ procs[p].dbErr) => procs[p].result.status = 500

-----------------------------------------------------------------------------
(* Properties of package auth *)

IsPositiveDuration(s) == ParseDuration(s).err = NoError /\ ParseDuration(s).d > 0

(* C22: InitJWT succeeds exactly when the secret is not empty and every *)
(* lifetime string that is set parses as a positive duration; an empty  *)
(* secret gives the secret-required error and any other lifetime string *)
(* a format error; with the lifetimes unset the access lifetime is 15   *)
(* minutes and the refresh lifetime 7 days                              *)
C22_InitJWT ==
    ret.fn = "InitJWT" =>
        LET a == ret.args
            accessOK == a.JWT_ACCESS_EXPIRY = <<>> \/ IsPositiveDuration(a.JWT_ACCESS_EXPIRY)
            refreshOK == a.JWT_REFRESH_EXPIRY = <<>> \/ IsPositiveDuration(a.JWT_REFRESH_EXPIRY)
        IN  /\ ret.err = NoError <=> (a.JWT_SECRET # "" /\ accessOK /\ refreshOK)
            /\ a.JWT_SECRET = "" => ret.err = "JWT_SECRET environment variable is required"
            /\ (a.JWT_SECRET # "" /\ ~(accessOK /\ refreshOK))
                   => ret.err \in {"invalid JWT_ACCESS_EXPIRY format", "invalid JWT_REFRESH_EXPIRY format"}
            /\ (ret.err = NoError /\ a.JWT_ACCESS_EXPIRY = <<>>) => jwt.accessExpiry = 15
            /\ (ret.err = NoError /\ a.JWT_REFRESH_EXPIRY = <<>>) => jwt.refreshExpiry = 7 * 24 * 60

(* C23 as stated: a token GenerateAccessToken issued, validated under   *)
(* the key it was signed with at a time from its NotBefore up to and    *)
(* including its ExpiresAt, yields its user id and email; validation    *)
(* fails under another key, after ExpiresAt, and for a method outside   *)
(* the HMAC family                                                      *)
C23_TokenRoundTrip ==
    ret.fn = "ValidateAccessToken" =>
        LET tokenString == ret.args
        IN  /\ \A i \in issued :
                  (i.token = tokenString /\ i.key = ret.key
                     /\ ret.at \in tokenString.NotBefore..tokenString.ExpiresAt)
                  => (ret.err = NoError /\ ret.claims.UserID = tokenString.UserID
                        /\ ret.claims.Email = tokenString.Email)
            /\ (\E i \in issued : i.token = tokenString /\ i.key # ret.key) => ret.err # NoError
            /\ ret.at > tokenString.ExpiresAt => ret.err # NoError
            /\ tokenString.alg \notin SigningMethodHMAC => ret.err # NoError

(* C23, amended: the round trip holds from NotBefore up to, but not     *)
(* including, ExpiresAt; validation fails under another key, from       *)
(* ExpiresAt on, and for a method outside the HMAC family               *)
C23_TokenRoundTripBeforeExpiry ==
    ret.fn = "ValidateAccessToken" =>
        LET tokenString == ret.args
        IN  /\ \A i \in issued :
                  (i.token = tokenString /\ i.key = ret.key
                     /\ ret.at \in tokenString.NotBefore..(tokenString.ExpiresAt - 1))
                  => (ret.err = NoError /\ ret.claims.UserID = tokenString.UserID
                        /\ ret.claims.Email = tokenString.Email)
            /\ (\E i \in issued : i.token = tokenString /\ i.key # ret.key) => ret.err # NoError
            /\ ret.at >= tokenString.ExpiresAt => ret.err # NoError
            /\ tokenString.alg \notin SigningMethodHMAC => ret.err # NoError

(* A token validated under a key other than the one that signed it *)
C23_Witness ==
    /\ ret.fn = "ValidateAccessToken"
    /\ \E i \in issued : i.token = ret.args /\ i.key # ret.key
    /\ ret.at < ret.args.ExpiresAt
    /\ ret.err = "signature is invalid"

(* The header begins with the 7 characters of "Bearer " *)
BeginsWithBearer(h) ==
    /\ Len(h) >= 7
    /\ \A i \in 1..7 : h[i] = <<"B", "e", "a", "r", "e", "r", " ">>[i]

(* C24: ExtractTokenFromHeader refuses the empty header with            *)
(* "authorization header is required", every other header that does not *)
(* begin with "Bearer " with the Bearer-prefix message, the header       *)
(* "Bearer " itself with "token cannot be empty", and otherwise returns  *)
(* the header without its first 7 characters, unchanged                  *)
C24_ExtractTokenFromHeader ==
    ret.fn = "ExtractTokenFromHeader" =>
        LET h == ret.args
        IN  /\ h = <<>> => ret.err = "authorization header is required"
            /\ (h # <<>> /\ ~BeginsWithBearer(h))
                  => ret.err = "authorization header must start with 'Bearer '"
            /\ (BeginsWithBearer(h) /\ Len(h) = 7) => ret.err = "token cannot be empty"
            /\ (BeginsWithBearer(h) /\ Len(h) > 7)
                  => /\ ret.err = NoError
                     /\ ret.token = [i \in 1..(Len(h) - 7) |-> h[i + 7]]
            /\ ret.err # NoError => ret.token = <<>>

(* "Bearer abc" gave "abc" *)
C24_Witness ==
    /\ ret.fn = "ExtractTokenFromHeader"
    /\ BeginsWithBearer(ret.args)
    /\ ret.err = NoError
    /\ ret.token = <<"a", "b", "c">>

-----------------------------------------------------------------------------
(* Properties of the password policy *)

(* The 8 rules, in their order, and the message of each *)
ViolatesRule(k, p) ==
    CASE k = 1 -> Len(p) < 8
      [] k = 2 -> Len(p) > 128
      [] k = 3 -> \E weak \in weakPasswords : \E off \in 0..(Len(p) - Len(weak)) :
                      \A j \in 1..Len(weak) : ToLowerChar(p[off + j]) = weak[j]
      [] k = 4 -> \A i \in 1..Len(p) : p[i] \notin Range(UpperSeq)
      [] k = 5 -> \A i \in 1..Len(p) : p[i] \notin Range(LowerSeq)
      [] k = 6 -> \A i \in 1..Len(p) : p[i] \notin Digits
      [] k = 7 -> \A i \in 1..Len(p) : p[i] \notin hasSpecial
      [] k = 8 -> \E i \in 1..(Len(p) - 3) : \A j \in 1..3 : p[i + j] = p[i]

RuleMessage ==
    << "Password must be at least 8 characters long",
       "Password must be no more than 128 characters long",
       "Password contains common weak patterns",
       "Password must contain at least one uppercase letter",
       "Password must contain at least one lowercase letter",
       "Password must contain at least one number",
       "Password must contain at least one special character",
       "Password cannot contain more than 3 repeated characters in a row" >>

C26_HashThenCompare ==
    /\ ret.fn = "HashPassword" => (ret.err = NoError <=> ValidatePassword(ret.args) = NoError)
    /\ ret.fn = "ComparePassword" => (ret.err = NoError <=> ret.args[2] = ret.hashed)

-----------------------------------------------------------------------------
(* Properties of the rate limiter *)

(* C27: two requests from the same client IP address are charged to the *)
(* same limiter key, whatever their source ports                        *)
C27_OneKeyPerClientIP ==
    \A a, b \in hist.keysOf : a.client = b.client => a.key = b.key

(* C28: for one key, the requests admitted in any interval of time are   *)
(* at most burst + rate x length of the interval (3, and one more per 20 *)
(* minutes), evictions by cleanup included                               *)
C28_AdmissionBound ==
    \A a, b \in hist.admitted :
        (a.key = b.key /\ a.at <= b.at)
        => 20 * Cardinality({c \in hist.admitted : c.key = a.key /\ a.at <= c.at /\ c.at <= b.at})
               <= 20 * 3 + (b.at - a.at)

(* C29: the calls of GetLimiter for one key between two evictions of the *)
(* key return the same limiter object, and no object is the entry of two *)
(* keys of the map                                                       *)
C29_OneLimiterPerKey ==
    /\ \A a, b \in hist.returned : (a.key = b.key /\ a.epoch = b.epoch) => a.object = b.object
    /\ \A k1, k2 \in DOMAIN rlm.limiters : rlm.limiters[k1] = rlm.limiters[k2] => k1 = k2
    /\ \A k \in DOMAIN rlm.limiters : rlm.limiters[k] \in DOMAIN heap

(* Both goroutines hold the limiter of one key, returned by two calls *)
C29_Witness ==
    /\ reqs["g1"].pc = "allow"
    /\ reqs["g2"].pc = "allow"
    /\ reqs["g1"].ip = reqs["g2"].ip
    /\ reqs["g1"].limiter = reqs["g2"].limiter

(* The key's limiter has a token now *)
HasToken(o) == heap[o].tokens + (now - heap[o].last) >= 20

(* C30: the middleware runs the wrapped handler once for a request whose *)
(* key's limiter has a token, and not at all otherwise, answering 429;   *)
(* the limiters of the other keys keep their tokens; of the requests for *)
(* one key at one instant at most burst (3) are admitted                 *)
C30_Middleware ==
    /\ [][\A g \in Goroutines :
            (reqs[g].pc = "allow" /\ reqs'[g].pc = "done")
            => /\ HasToken(reqs[g].limiter)
                    => (reqs'[g].served = 1 /\ reqs'[g].status # 429)
               /\ ~HasToken(reqs[g].limiter)
                    => (reqs'[g].served = 0 /\ reqs'[g].status = 429)
               /\ \A o \in DOMAIN heap \ {reqs[g].limiter} : heap'[o] = heap[o]]_vars
    /\ [](\A a \in hist.admitted :
            Cardinality({c \in hist.admitted : c.key = a.key /\ c.at = a.at}) <= 3)
    /\ [](\A g \in Goroutines : reqs[g].pc # "done" => reqs[g].served = 0)

(* A fourth request for a key at one instant was answered 429 *)
C30_Witness ==
    \E g \in Goroutines :
        /\ reqs[g].pc = "done"
        /\ reqs[g].status = 429
        /\ reqs[g].served = 0
        /\ Cardinality({c \in hist.admitted : c.key = reqs[g].ip /\ c.at = now}) = 3

-----------------------------------------------------------------------------
(* Properties of concurrent logins and password resets *)

(* C31: a reset token authorizes at most one successful resetPassword.   *)
(* Once a resetPassword with token t has written, the token is no longer *)
(* stored; another resetPassword with t that comes to its write then, a  *)
(* later one or one that ran beside the first, is answered 400 and       *)
(* leaves the password hash as it is.                                    *)
C31_ResetTokenSingleUse ==
    [][\A p \in Procs :
          ( /\ procs[p].pc = "reset_update"
            /\ procs'[p].pc # procs[p].pc
            /\ users[procs[p].userID].reset_token # procs[p].token )
          => ( /\ procs'[p].pc = "done"
               /\ procs'[p].result.status = 400
               /\ users'[procs[p].userID].password_hash
                      = users[procs[p].userID].password_hash )]_vars

(* C32: when a login that checked the old password runs beside a         *)
(* resetPassword of the same user, then once both have finished no       *)
(* refresh token created by that login is stored.  The login stores its  *)
(* token last: if by then the password it checked is no longer the       *)
(* stored one and no reset of the user is still to delete the tokens,    *)
(* the token must not stay.                                              *)
C32_ResetLogsOutConcurrentLogin ==
    [][\A p \in Procs :
          ( /\ procs[p].pc = "login_insert"
            /\ procs'[p].pc = "done"
            /\ ~ComparePassword(users[procs[p].userID].password_hash, procs[p].password)
            /\ \A q \in Procs :
                  ~( /\ procs[q].pc \in {"reset_update", "reset_delete"}
                     /\ procs[q].userID = procs[p].userID ) )
          => \A r \in refresh_tokens' :
                 r.user_id = procs[p].userID => r.token # procs'[p].result.refresh]_vars

(* C35: in every reachable state, under every interleaving of login and *)
(* resetPassword requests, a user's locked_until is non-null if and     *)
(* only if the user's failed_login_attempts is at least 5.              *)
C35_LockIffThreshold ==
    \A id \in DOMAIN users :
        (users[id].locked_until # NULL) <=> (users[id].failed_login_attempts >= LockThreshold)

(* The lock of the fifth wrong login is set while a password reset of the *)
(* account, begun before it, is still to write                            *)
C35_Witness ==
    \E id \in DOMAIN users : \E p \in Procs :
        /\ users[id].failed_login_attempts >= LockThreshold
        /\ users[id].locked_until = now + LockDuration
        /\ procs[p].pc = "reset_update"
        /\ procs[p].userID = id

(* C36: the expiry of a lock does not reset the counter.  Time passing   *)
(* writes no row; logins served one at a time: a wrong-password login    *)
(* that finds a lock that has passed finds the counter at 5 or more,     *)
(* adds one to it and sets a new lock of 15 minutes from now at once.    *)
C36_LockExpiryKeepsCounter ==
    [][/\ (now' # now) => (users' = users)
       /\ \A p \in Procs :
             ( /\ procs[p].pc = "login_fail_update"
               /\ procs'[p].pc = "done"
               /\ users[procs[p].userID].locked_until # NULL
               /\ ~(now < users[procs[p].userID].locked_until) )
             => LET id == procs[p].userID
                IN  /\ users[id].failed_login_attempts >= LockThreshold
                    /\ users'[id].failed_login_attempts = users[id].failed_login_attempts + 1
                    /\ users'[id].locked_until = now + LockDuration
                    /\ procs'[p].result.status = 401]_vars

(* The sixth wrong password, tried when the lock of the fifth had passed, *)
(* locked the account again                                               *)
C36_Witness ==
    \E p \in Procs : \E id \in DOMAIN users :
        /\ procs[p].pc = "done" /\ procs[p].op = "login"
        /\ procs[p].userID = id
        /\ procs[p].result.status = 401
        /\ now = LockDuration
        /\ users[id].failed_login_attempts = LockThreshold + 1
        /\ users[id].locked_until = now + LockDuration

(* C37: in every reachable state every stored refresh-token row is owned *)
(* by an existing user whose email_verified is true.                     *)
C37_RefreshTokenOwnerVerified ==
    \A r \in refresh_tokens :
        /\ r.user_id \in DOMAIN users
        /\ users[r.user_id].email_verified

(* A row is stored for the second account, which was registered, then *)
(* verified, and then logged in                                        *)
C37_Witness ==
    \E r \in refresh_tokens :
        /\ r.user_id = 2
        /\ users[2].email_verified
        /\ users[2].verification_token = NULL

(* C38: the store holds at most one user row per email; of two register *)
(* requests for one new email that run side by side, the one that       *)
(* inserts first creates the row, and the INSERT of the other fails     *)
(* and leaves the table as it is.                                       *)
C38_OneRowPerEmail ==
    /\ [](\A a, b \in DOMAIN users : users[a].email = users[b].email => a = b)
    /\ [][\A p \in Procs :
             ( procs[p].pc = "register_insert" /\ procs'[p].pc = "done" )
             => IF \E id \in DOMAIN users : users[id].email = procs[p].email
                  THEN /\ users' = users
                       /\ procs'[p].result.status = 500
                  ELSE /\ procs'[p].result.status = 201
                       /\ Cardinality(DOMAIN users') = Cardinality(DOMAIN users) + 1
                       /\ \E id \in DOMAIN users' \ DOMAIN users :
                             users'[id].email = procs[p].email]_vars

(* The second of two concurrent registrations of c@x.io failed at its *)
(* INSERT; the row of the first is stored                              *)
C38_Witness ==
    \E p \in Procs :
        /\ procs[p].pc = "done" /\ procs[p].op = "register"
        /\ procs[p].email = "c@x.io"
        /\ procs[p].result.status = 500
        /\ procs[p].result.error = "Failed to create user"
        /\ Cardinality({id \in DOMAIN users : users[id].email = "c@x.io"}) = 1

(* C33: a verification token stops working as soon as it is used or      *)
(* superseded.  verifyEmail(t) goes on to verify an account exactly when *)
(* t is the token now stored for an unverified account and not expired;  *)
(* otherwise it is answered 400 and changes nothing.  The write of a     *)
(* verification leaves its token stored nowhere, and the write of a      *)
(* resend puts a token never drawn before in the place of the old one,   *)
(* which is then stored nowhere.                                         *)
C33_VerificationTokenSuperseded ==
    [][\A p \in Procs :
          /\ ( procs[p].pc = "idle" /\ procs'[p].op = "verifyEmail" )
             => LET t == procs'[p].token
                    current == {id \in DOMAIN users :
                                   /\ t # NULL
                                   /\ ~users[id].email_verified
                                   /\ users[id].verification_token = t
                                   /\ users[id].verification_token_expires > now}
                IN  IF current = {}
                      THEN /\ procs'[p].pc = "done"
                           /\ procs'[p].result.status = 400
                           /\ users' = users
                    ELSE /\ procs'[p].pc = "verify_update"
                         /\ procs'[p].userID \in current
          /\ ( procs[p].pc = "verify_update" /\ procs'[p].pc = "done" )
             => /\ users'[procs[p].userID].email_verified
                /\ \A id \in DOMAIN users' : users'[id].verification_token # procs[p].token
          /\ ( procs[p].pc = "resend_update" /\ procs'[p].pc = "done" )
             => LET old == users[procs[p].userID].verification_token
                IN  /\ users'[procs[p].userID].verification_token \notin IssuedTokens \cup {NULL}
                    /\ \A id \in DOMAIN users' : users'[id].verification_token # old]_vars

(* verifyEmail with the token of the registration is refused although the *)
(* token has not expired: a resend has stored another for the account     *)
C33_Witness ==
    \E p \in Procs :
        /\ procs[p].pc = "done" /\ procs[p].op = "verifyEmail"
        /\ procs[p].token = 0
        /\ procs[p].result.status = 400
        /\ now < VerificationTTL
        /\ ~users[2].email_verified
        /\ users[2].verification_token \notin {0, NULL}
        /\ users[2].verification_token_expires > now

-----------------------------------------------------------------------------
(* Properties of InitJWT's failures *)

(* The access lifetime InitJWT assigns for the environment *)
AccessExpiryOf(e) ==
    IF e.JWT_ACCESS_EXPIRY = <<>> THEN accessExpiry ELSE ParseDuration(e.JWT_ACCESS_EXPIRY).d

(* C40 as stated: a call of InitJWT that fails while parsing the refresh *)
(* lifetime has replaced the secret and the access lifetime and leaves   *)
(* the refresh lifetime at its previous value; a call that fails on an   *)
(* empty secret has set the secret to the empty string                   *)
C40_InitJWTNotAtomic ==
    [][(env' = env /\ ret'.fn = "InitJWT" /\ ret'.args = env) =>
          /\ (ret'.err = "invalid JWT_REFRESH_EXPIRY format")
             => /\ jwt'.jwtSecret = env.JWT_SECRET
                /\ jwt'.accessExpiry = AccessExpiryOf(env)
                /\ jwt'.refreshExpiry = jwt.refreshExpiry
          /\ (ret'.err = "JWT_SECRET environment variable is required")
             => /\ jwt'.jwtSecret = ""
                /\ jwt'.accessExpiry = jwt.accessExpiry
                /\ jwt'.refreshExpiry = jwt.refreshExpiry]_vars

(* C40, amended: a call of InitJWT that fails while parsing the refresh *)
(* lifetime has replaced the secret and the access lifetime and has set *)
(* the refresh lifetime to zero, the value ParseDuration returns with   *)
(* its error; a call that fails on an empty secret has set the secret   *)
(* to the empty string and left both lifetimes as they were             *)
C40_InitJWTNotAtomicRefreshZero ==
    [][(env' = env /\ ret'.fn = "InitJWT" /\ ret'.args = env) =>
          /\ (ret'.err = "invalid JWT_REFRESH_EXPIRY format")
             => /\ jwt'.jwtSecret = env.JWT_SECRET
                /\ jwt'.accessExpiry = AccessExpiryOf(env)
                /\ jwt'.refreshExpiry = 0
          /\ (ret'.err = "JWT_SECRET environment variable is required")
             => /\ jwt'.jwtSecret = ""
                /\ jwt'.accessExpiry = jwt.accessExpiry
                /\ jwt'.refreshExpiry = jwt.refreshExpiry]_vars

(* A call failed on the refresh lifetime "7d" after it had set the secret *)
(* and the access lifetime of 1h30m; the refresh lifetime is zero         *)
C40_Witness ==
    /\ ret.fn = "InitJWT"
    /\ ret.err = "invalid JWT_REFRESH_EXPIRY format"
    /\ ret.args = env
    /\ env.JWT_REFRESH_EXPIRY = <<"7", "d">>
    /\ jwt.jwtSecret = "test-secret"
    /\ jwt.accessExpiry = 90
    /\ jwt.refreshExpiry = 0

-----------------------------------------------------------------------------
(* Properties of RequireAuth *)

(* C34: RequireAuth invokes the protected handler if and only if the     *)
(* Authorization header is "Bearer " followed by a token, the token      *)
(* validates, and a user with the token's user id exists with            *)
(* email_verified true; the handler's context then carries the token's   *)
(* user id and email.  In every other case the handler is not invoked    *)
(* and the answer is 401, or 500 when the user lookup fails.  No row     *)
(* changes.                                                              *)
C34_RequireAuth ==
    [][\A p \in Procs :
          ( procs[p].pc = "idle" /\ procs'[p].op = "requireAuth" )
          => LET h == procs'[p].authorization
                 bearer == /\ Len(h) > Len(bearerPrefix)
                           /\ SubSeq(h, 1, Len(bearerPrefix)) = bearerPrefix
                 tokenString == SubSeq(h, Len(bearerPrefix) + 1, Len(h))
                 valid == /\ bearer
                          /\ IsCompact(tokenString)
                          /\ ValidateAccessToken(tokenString[2], now).err = NoError
                 verified == /\ valid
                             /\ tokenString[2].UserID \in DOMAIN users
                             /\ users[tokenString[2].UserID].email_verified
                 invoked == procs'[p].pc = "next"
             IN  /\ invoked <=> (verified /\ ~procs'[p].dbErr)
                 /\ invoked => /\ procs'[p].uid = tokenString[2].UserID
                               /\ procs'[p].user_email = tokenString[2].Email
                 /\ ~invoked => /\ procs'[p].pc = "done"
                                /\ procs'[p].result.status = IF procs'[p].dbErr THEN 500 ELSE 401
                 /\ procs'[p].dbErr => valid
                 /\ users' = users
                 /\ refresh_tokens' = refresh_tokens]_vars

(* The protected handler is invoked for the first account with a token *)
(* of a login, and the context carries its id and email                *)
C34_Witness ==
    \E p \in Procs : \E i \in issued :
        /\ procs[p].pc = "next"
        /\ procs[p].authorization = bearerPrefix \o Compact(i.token)
        /\ procs[p].uid = 1
        /\ procs[p].user_email = "a@x.io"
        /\ ~users[2].email_verified

(* C39: access tokens are not revoked by logout or by resetPassword.  An *)
(* access token a login returned, presented when the refresh token of   *)
(* that login is no longer stored (a logout or a password reset deleted  *)
(* it), is accepted by RequireAuth before its ExpiresAt as long as the   *)
(* user exists and is verified and the lookup does not fail.             *)
C39_AccessTokenOutlivesSession ==
    [][\A p \in Procs : \A i \in issued :
          ( /\ procs[p].pc = "idle"
            /\ procs'[p].op = "requireAuth"
            /\ procs'[p].authorization = bearerPrefix \o Compact(i.token)
            /\ ~procs'[p].dbErr
            /\ \A r \in refresh_tokens : r.token # i.refresh
            /\ now < i.token.ExpiresAt
            /\ i.token.UserID \in DOMAIN users
            /\ users[i.token.UserID].email_verified )
          => ( /\ procs'[p].pc = "next"
               /\ procs'[p].uid = i.token.UserID )]_vars

(* The token of a login is accepted a minute before it expires, after a *)
(* password reset deleted the refresh token of that login               *)
C39_Witness ==
    \E p \in Procs : \E i \in issued :
        /\ procs[p].pc = "next"
        /\ procs[p].authorization = bearerPrefix \o Compact(i.token)
        /\ i.refresh \in revoked
        /\ \A r \in refresh_tokens : r.token # i.refresh
        /\ now = i.token.ExpiresAt - 1

====
